---- MODULE Spec2Model ----
(***************************************************************************)
(* Model of lib/old/toxencryptsave.js (node-toxcore): the ToxEncryptSave   *)
(* facade over the libtoxencryptsave primitives.  Every public method has  *)
(* a callback ("non-blocking") entry point and a ...Sync ("blocking") twin.*)
(* The blocking functions run to completion inside one action; a          *)
(* non-blocking operation suspends at each ffi .async round trip and       *)
(* resumes in the callback it handed to ffi.                               *)
(***************************************************************************)
EXTENDS Integers, Sequences, FiniteSets, TLC

VARIABLES
  ctorArgs,    \* the arguments `new ToxEncryptSave(...)` was called with
  _tox,        \* this._tox: "tox" (a Tox instance) or "undefined"
  toxHandle,   \* tox.handle of the session collaborator: "h1" or "null"
  _sync,       \* this._sync, the 'sync' option after construction
  build,       \* platform behaviour the code leaves open (see NewBuffer, ffiAsync)
  ops          \* the invocations of the facade, one record per slot

vars == <<ctorArgs, _tox, toxHandle, _sync, build, ops>>

-----------------------------------------------------------------------------
\* Bounds of the model.
MaxLen == 2          \* longest Buffer given as data, in bytes
MaxStrLen == 1       \* longest String given as data, in characters
MaxExtra == 2        \* largest tox_pass_encryption_extra_length() of a provider
MaxSize == 2         \* largest tox_encrypted_size() / tox_pass_key_length()
MaxRet == 2          \* largest value a main primitive returns (smallest is -1)
NumSlots == 2        \* invocations that can be in progress together

TOX_SALT_LENGTH == 32

Slots == 1..NumSlots

-----------------------------------------------------------------------------
\* JavaScript values.

RECURSIVE SeqsUpTo(_, _)
SeqsUpTo(S, n) ==
  IF n = 0 THEN {<<>>}
  ELSE LET shorter == SeqsUpTo(S, n - 1)
       IN shorter \cup {Append(q, x) : q \in {t \in shorter : Len(t) = n - 1}, x \in S}

\* Characters of a String argument and bytes of a Buffer argument.
Chars == {"a", "e_acute"}
Bytes == {97}

Str(cs) == [t |-> "String", v |-> cs]
Buf(bs) == [t |-> "Buffer", v |-> bs]

\* UTF-8 encoding of one character: 'a' is one byte, U+00E9 is two.
Utf8Char(c) == IF c = "a" THEN <<97>> ELSE <<195, 169>>

RECURSIVE Utf8(_)
Utf8(cs) == IF cs = <<>> THEN <<>> ELSE Utf8Char(Head(cs)) \o Utf8(Tail(cs))

\* _.isString(x)
isString(x) == x.t = "String"

\* x.length: characters of a String, bytes of a Buffer.
length(x) == Len(x.v)

\* new Buffer(string): the UTF-8 bytes of the string.
BufferFromString(x) == Buf(Utf8(x.v))

\* if(_.isString(x)) { x = new Buffer(x); }
ToBuffer(x) == IF isString(x) THEN BufferFromString(x) ELSE x

\* Result values handed to callers and callbacks.
Absent == [k |-> "absent"]
IntVal(n) == [k |-> "int", n |-> n]
BoolVal(b) == [k |-> "bool", b |-> b]
OutBuf(id, n) == [k |-> "buf", id |-> id, len |-> n]

\* Errors.
NoErr == [k |-> "none"]
TransportError == [k |-> "Transport"]
RangeError == [k |-> "RangeError"]
TypeError == [k |-> "TypeError"]
_createNoHandleError == [k |-> "NoHandle"]
createNonZeroReturnError(name, res) == [k |-> "NonZeroReturn", op |-> name, code |-> res]
createReturnError(name, res, expected) ==
  [k |-> "ReturnMismatch", op |-> name, actual |-> res, expected |-> expected]

-----------------------------------------------------------------------------
\* The session collaborator.

\* ToxEncryptSave.prototype.getHandle
getHandle == IF _tox = "tox" THEN toxHandle ELSE "undefined"

\* JavaScript truthiness of a handle value.
Truthy(h) == h = "h1"

-----------------------------------------------------------------------------
\* One invocation of a facade method.

NoArg == [t |-> "none", v |-> <<>>]
NoBuf == [k |-> "nobuf"]
NoRet == [k |-> "none"]

\* What the mocked provider answers during one invocation: the length
\* constants, the size of the save and the value of the main primitive.
\* `real` is off for it: it writes nothing into the output buffer.
Provider(extra, keyLen, saltLen, encSize, res) ==
  [extra |-> extra, keyLen |-> keyLen, saltLen |-> saltLen, encSize |-> encSize,
   ret |-> res, real |-> FALSE]

\* A provider that encrypts and decrypts (see Encrypted, Decrypted below).
InvertingProvider(extra) == [Provider(extra, 0, 0, 0, 0) EXCEPT !.real = TRUE]

\* A call of a primitive: its name and the arguments it is given.
\* dlen and slen are the explicit uint32 length arguments, NoLen where the
\* primitive's signature has none.
NoLen == -1

Call(name, handle, darg, dlen, sarg, slen, buf) ==
  [name |-> name, handle |-> handle, darg |-> darg, dlen |-> dlen,
   sarg |-> sarg, slen |-> slen, buf |-> buf]

LenCall(name, handle) == Call(name, handle, NoArg, NoLen, NoArg, NoLen, NoBuf)
NoCall == LenCall("none", "none")

Unused(s) ==
  [self |-> s, pc |-> "unused", op |-> "none", entry |-> "none", cb |-> FALSE,
   args |-> [data |-> NoArg, secret |-> NoArg], data |-> NoArg, secret |-> NoArg,
   prov |-> Provider(0, 0, 0, 0, 0), path |-> "none", calls |-> <<>>, out |-> NoBuf,
   nalloc |-> 0, cont |-> "none", cbCalls |-> <<>>, ret |-> NoRet, uncaught |-> NoErr,
   handleAtEntry |-> "undefined", terr |-> FALSE, gate |-> TRUE, pend |-> NoCall,
   mem |-> <<>>]

\* The record of a method called with (data, secret[, handler]).
Started(s, op, entry, data, secret, cb, prov) ==
  [Unused(s) EXCEPT !.pc = "running", !.op = op, !.entry = entry, !.cb = cb,
                    !.args = [data |-> data, secret |-> secret],
                    !.data = data, !.secret = secret, !.prov = prov,
                    !.handleAtEntry = getHandle]

\* return v;  /  throw e;
Return(r, v) == [r EXCEPT !.ret = [k |-> "value", v |-> v], !.pc = "done"]
Throw(r, e) == [r EXCEPT !.ret = [k |-> "throw", e |-> e], !.pc = "done"]
Thrown(r) == r.ret.k = "throw"

\* An exception thrown inside a callback run by the event loop: nobody
\* catches it and the operation's handler is never reached.
Uncaught(r, e) == [r EXCEPT !.uncaught = e, !.pc = "crashed"]

\* The function returns undefined, leaving a round trip in flight or not.
Finish(r) == [r EXCEPT !.pc = "done"]

-----------------------------------------------------------------------------
\* The primitive provider (the ffi library of createLibrary).


\* The events of a call: it is issued, then it completes with the returned
\* value or, for a round trip that failed, with an error and no value.
Issued(c, mode) == [ev |-> "issue", mode |-> mode, c |-> c, res |-> 0, err |-> NoErr]
Completed(c, mode, res, err) ==
  [ev |-> "complete", mode |-> mode, c |-> c, res |-> res, err |-> err]

\* The value the provider returns for a primitive in this invocation.
ProvRes(r, name) ==
  CASE name = "tox_pass_encryption_extra_length" -> r.prov.extra
    [] name = "tox_pass_key_length" -> r.prov.keyLen
    [] name = "tox_pass_salt_length" -> r.prov.saltLen
    [] name = "tox_encrypted_size" -> r.prov.encSize
    [] OTHER -> r.prov.ret

\* The inverting provider.  Its ciphertext is `extra` bytes of a tag
\* computed from the secret, followed by the plaintext; decrypting checks
\* the tag, writes the plaintext and returns its length, or returns -1.
SecretBytes(c) == IF c.slen = NoLen THEN c.sarg.v ELSE SubSeq(c.sarg.v, 1, c.slen)
Tag(bs) == IF bs = <<>> THEN 0 ELSE (Head(bs) + Len(bs)) % 256
Encrypted(c, extra) ==
  [i \in 1..extra |-> Tag(SecretBytes(c))] \o SubSeq(c.darg.v, 1, c.dlen)
DecryptOk(c, extra) ==
  /\ c.dlen >= extra
  /\ \A i \in 1..extra : c.darg.v[i] = Tag(SecretBytes(c))
Decrypted(c, extra) == SubSeq(c.darg.v, extra + 1, c.dlen)

IsEncrypt(c) == c.name \in {"tox_pass_encrypt", "tox_pass_key_encrypt"}
IsDecrypt(c) == c.name \in {"tox_pass_decrypt", "tox_pass_key_decrypt"}

\* The value the provider returns for the call c.
ProvAnswer(r, c) ==
  IF r.prov.real /\ IsDecrypt(c)
  THEN IF DecryptOk(c, r.prov.extra) THEN c.dlen - r.prov.extra ELSE -1
  ELSE ProvRes(r, c.name)

\* The bytes of c's output buffer after the call: what the provider wrote,
\* as far as the buffer reaches.
ProvWrite(r, c) ==
  LET w == IF ~r.prov.real THEN <<>>
           ELSE IF IsEncrypt(c) THEN Encrypted(c, r.prov.extra)
           ELSE IF IsDecrypt(c) /\ DecryptOk(c, r.prov.extra)
                THEN Decrypted(c, r.prov.extra)
           ELSE <<>>
  IN IF c.buf = NoBuf THEN <<>>
     ELSE SubSeq(w, 1, IF Len(w) < c.buf.len THEN Len(w) ELSE c.buf.len)

\* The value the last call returned.
LastRes(r) == r.calls[Len(r.calls)].res

\* The primitives take their data, passphrase and key as uint8 pointers
\* (_UInt8Ptr); ffi accepts a Buffer there and rejects a String with a
\* TypeError before the provider is reached.
BadPointer(c) == isString(c.darg) \/ isString(c.sarg)

\* lib.tox_xxx(args): a blocking call, issued and completed at once.
ffiSync(r, c) ==
  IF BadPointer(c) THEN Throw(r, TypeError)
  ELSE [r EXCEPT !.calls = @ \o <<Issued(c, "sync"),
                                  Completed(c, "sync", ProvAnswer(r, c), NoErr)>>,
                 !.mem = IF c.buf = NoBuf THEN @ ELSE ProvWrite(r, c)]

\* new Buffer(n) for a computed length n.  A negative length is outside what
\* the code checks: depending on the runtime the constructor clamps it to 0
\* or throws a RangeError.
AllocThrows(n) == n < 0 /\ build.bufferThrows

\* Faulty variant of the allocation: one buffer kept by the instance is
\* handed out to every operation.
NewBuffer_shared(r, n) ==
  [r EXCEPT !.nalloc = @ + 1, !.out = OutBuf(<<0, 1>>, IF n < 0 THEN 0 ELSE n)]

NewBuffer(r, n) ==
  [r EXCEPT !.nalloc = @ + 1,
            !.out = OutBuf(<<r.self, r.nalloc + 1>>, IF n < 0 THEN 0 ELSE n)]

-----------------------------------------------------------------------------
\* The blocking convention.

\* ToxEncryptSave.prototype._checkHandleSync
_checkHandleSync(r) == IF ~Truthy(getHandle) THEN Throw(r, _createNoHandleError) ELSE r

getEncryptionExtraLengthSync(r) ==
  Return(ffiSync(r, LenCall("tox_pass_encryption_extra_length", "none")),
         IntVal(r.prov.extra))

getKeyLengthSync(r) ==
  Return(ffiSync(r, LenCall("tox_pass_key_length", "none")),
         IntVal(r.prov.keyLen))

getSaltLengthSync(r) ==
  Return(ffiSync(r, LenCall("tox_pass_salt_length", "none")),
         IntVal(r.prov.saltLen))

getEncryptedSizeSync(r) ==
  LET g == _checkHandleSync(r)
  IN IF Thrown(g) THEN g
     ELSE Return(ffiSync(g, LenCall("tox_encrypted_size", getHandle)),
                 IntVal(g.prov.encSize))

\* Shared shape of the blocking functions that allocate an output buffer of
\* n bytes, call one primitive with it and classify the returned value
\* against 0 (status primitives) or outBuffer.length (decrypt: mismatch).
SyncMain(r, n, c, mismatch) ==
  IF AllocThrows(n) THEN Throw(r, RangeError)
  ELSE LET a == NewBuffer(r, n)
           d == ffiSync(a, [c EXCEPT !.buf = a.out])
           res == LastRes(d)
       IN IF Thrown(d) THEN d
          ELSE IF mismatch
          THEN IF res # a.out.len THEN Throw(d, createReturnError(c.name, res, a.out.len))
               ELSE Return(d, a.out)
          ELSE IF res # 0 THEN Throw(d, createNonZeroReturnError(c.name, res))
               ELSE Return(d, a.out)

\* Faulty variant of passEncryptSync: the output buffer is sized from the
\* argument's length before it is converted to bytes.
passEncryptSync_charLength(r) ==
  LET r1 == [r EXCEPT !.data = ToBuffer(@), !.secret = ToBuffer(@)]
      q == getEncryptionExtraLengthSync(r1)
  IN SyncMain(q, length(r.data) + q.ret.v.n,
              Call("tox_pass_encrypt", "none", r1.data, length(r1.data),
                   r1.secret, length(r1.secret), NoBuf), FALSE)

passEncryptSync(r) ==
  LET r1 == [r EXCEPT !.data = ToBuffer(@), !.secret = ToBuffer(@)]
      q == getEncryptionExtraLengthSync(r1)
  IN SyncMain(q, length(r1.data) + q.ret.v.n, Call("tox_pass_encrypt", "none", r1.data, length(r1.data),
                   r1.secret, length(r1.secret), NoBuf), FALSE)

passDecryptSync(r) ==
  LET r1 == [r EXCEPT !.data = ToBuffer(@), !.secret = ToBuffer(@)]
      q == getEncryptionExtraLengthSync(r1)
  IN SyncMain(q, length(r1.data) - q.ret.v.n, Call("tox_pass_decrypt", "none", r1.data, length(r1.data),
                   r1.secret, length(r1.secret), NoBuf), TRUE)

\* Shared shape of the blocking functions that call one status primitive
\* without an output buffer of their own (the loads).
SyncStatus(r, c) ==
  LET d == ffiSync(r, c)
      res == LastRes(d)
  IN IF Thrown(d) THEN d
     ELSE IF res # 0 THEN Throw(d, createNonZeroReturnError(c.name, res))
     ELSE Return(d, Absent)

encryptedLoadSync(r) ==
  LET g == _checkHandleSync(r)
      r1 == [g EXCEPT !.data = ToBuffer(@), !.secret = ToBuffer(@)]
  IN IF Thrown(g) THEN g
     ELSE SyncStatus(r1, Call("tox_encrypted_load", getHandle, r1.data, length(r1.data),
                          r1.secret, length(r1.secret), NoBuf))

encryptedSaveSync(r) ==
  LET g == _checkHandleSync(r)
      r1 == [g EXCEPT !.secret = ToBuffer(@)]
      q == getEncryptedSizeSync(r1)
  IN IF Thrown(g) THEN g
     ELSE IF Thrown(q) THEN q
     ELSE SyncMain(q, q.ret.v.n, Call("tox_encrypted_save", getHandle, NoArg, NoLen,
                                     r1.secret, length(r1.secret), NoBuf), FALSE)

\* deriveKeyFromPassSync as it would be if it went through the handle gate.
deriveKeyFromPassSync_gated(r) ==
  LET g == _checkHandleSync(r)
      r1 == [g EXCEPT !.secret = ToBuffer(@)]
      q == getKeyLengthSync(r1)
  IN IF Thrown(g) THEN g
     ELSE SyncMain(q, q.ret.v.n, Call("tox_derive_key_from_pass", "none", NoArg, NoLen,
                                     r1.secret, length(r1.secret), NoBuf), FALSE)

deriveKeyFromPassSync(r) ==
  LET r1 == [r EXCEPT !.secret = ToBuffer(@)]
      q == getKeyLengthSync(r1)
  IN SyncMain(q, q.ret.v.n, Call("tox_derive_key_from_pass", "none", NoArg, NoLen,
                                r1.secret, length(r1.secret), NoBuf), FALSE)

\* The salt travels in the data position of the call.
deriveKeyWithSaltSync(r) ==
  LET r1 == [r EXCEPT !.secret = ToBuffer(@)]
      q == getKeyLengthSync(r1)
  IN SyncMain(q, q.ret.v.n, Call("tox_derive_key_with_salt", "none", r1.data, NoLen,
                                r1.secret, length(r1.secret), NoBuf), FALSE)

\* Faulty variant of getSaltSync: the salt buffer is given the length of
\* the data.
getSaltSync_dataSized(r) ==
  SyncMain(r, length(r.data),
           Call("tox_get_salt", "none", r.data, NoLen, NoArg, NoLen, NoBuf), FALSE)

getSaltSync(r) ==
  SyncMain(r, TOX_SALT_LENGTH,
           Call("tox_get_salt", "none", r.data, NoLen, NoArg, NoLen, NoBuf), FALSE)

passKeyEncryptSync(r) ==
  LET r1 == [r EXCEPT !.data = ToBuffer(@)]
      q == getEncryptionExtraLengthSync(r1)
  IN SyncMain(q, length(r1.data) + q.ret.v.n, Call("tox_pass_key_encrypt", "none", r1.data, length(r1.data),
                   r1.secret, NoLen, NoBuf), FALSE)

\* Faulty variant of passKeyDecryptSync: the output buffer is given the
\* length of the ciphertext.
passKeyDecryptSync_unsized(r) ==
  LET q == getEncryptionExtraLengthSync(r)
  IN SyncMain(q, length(r.data), Call("tox_pass_key_decrypt", "none", r.data, length(r.data),
                   r.secret, NoLen, NoBuf), TRUE)

passKeyDecryptSync(r) ==
  LET q == getEncryptionExtraLengthSync(r)
  IN SyncMain(q, length(r.data) - q.ret.v.n, Call("tox_pass_key_decrypt", "none", r.data, length(r.data),
                   r.secret, NoLen, NoBuf), TRUE)

encryptedKeySaveSync(r) ==
  LET g == _checkHandleSync(r)
      q == getEncryptedSizeSync(g)
  IN IF Thrown(g) THEN g
     ELSE IF Thrown(q) THEN q
     ELSE SyncMain(q, q.ret.v.n, Call("tox_encrypted_key_save", getHandle, NoArg, NoLen,
                                     r.secret, NoLen, NoBuf), FALSE)

encryptedKeyLoadSync(r) ==
  LET g == _checkHandleSync(r)
  IN IF Thrown(g) THEN g
     ELSE SyncStatus(g, Call("tox_encrypted_key_load", getHandle, g.data, length(g.data),
                         g.secret, NoLen, NoBuf))

isDataEncryptedSync(r) ==
  LET c == ffiSync(r, Call("tox_is_data_encrypted", "none", r.data, NoLen, NoArg, NoLen, NoBuf))
  IN IF Thrown(c) THEN c ELSE Return(c, BoolVal(LastRes(c) = 1))

-----------------------------------------------------------------------------
\* The non-blocking convention.  A callback is named by a label: "handler"
\* is the caller's completion handler, "absent" is undefined, every other
\* label is one of the anonymous functions of the source.

\* sync.hasCallback(arguments): the last argument is a function.
hasCallback(callback) == callback # "absent"

\* Faulty variants of _useSync: the negation of the handler test dropped,
\* and the handler test dropped altogether.
_useSync_negationDropped(callback) == _sync /\ hasCallback(callback)
_useSync_optionOnly(callback) == _sync

\* ToxEncryptSave.prototype._useSync
_useSync(callback) == _sync /\ ~hasCallback(callback)

Path(r, p) == [r EXCEPT !.path = p]

RECURSIVE InvokeCallback(_, _, _, _)

\* lib.tox_xxx.async(args, callback): the round trip is put in flight and
\* `callback` is what ffi will run on completion.  ffi is handed undefined
\* when the caller gave no handler: depending on the ffi build that is
\* rejected at once with a TypeError or fails when the completion runs.
\* A String where a pointer is expected is rejected before the round trip
\* starts: depending on the ffi build the TypeError is thrown or handed to
\* `callback` at once.
ffiAsync(r, c, callback) ==
  IF callback = "absent" /\ build.asyncChecksCallback
  THEN Throw(r, TypeError)
  ELSE IF BadPointer(c)
  THEN IF build.asyncThrowsBadArg \/ callback = "absent" THEN Throw(r, TypeError)
       ELSE InvokeCallback(r, callback, TypeError, Absent)
  ELSE [r EXCEPT !.calls = Append(@, Issued(c, "async")), !.pc = "pending",
                 !.cont = callback, !.pend = c]

\* callback(err, res) on the caller's handler.
HandlerCall(r, err, res) == [r EXCEPT !.cbCalls = Append(@, [err |-> err, res |-> res])]

\* if(callback) { callback(err, res); }   as the last statement of a callback
Notify(r, err, res) == Finish(IF r.cb THEN HandlerCall(r, err, res) ELSE r)

\* function(err, res) of the status operations that own an output buffer:
\*   if(!err && res !== 0) err = createNonZeroReturnError(name, res);
\*   if(callback) callback(err, outBuffer);
onStatus(r, name, err, res) ==
  LET e == IF err = NoErr /\ res.n # 0 THEN createNonZeroReturnError(name, res.n) ELSE err
  IN Notify(r, e, r.out)

\* function(err, res) of the decrypt operations:
\*   if(!err && res !== outBuffer.length) err = createReturnError(...);
\*   if(callback) callback(err, outBuffer);
\* onByteCount as it would be if it compared the value of a failed round trip.
onByteCount_classifiesFailed(r, name, err, res) ==
  LET e == IF res.k # "int" THEN createReturnError(name, 0, r.out.len)
           ELSE IF res.n # r.out.len THEN createReturnError(name, res.n, r.out.len)
           ELSE err
  IN Notify(r, e, r.out)

onByteCount(r, name, err, res) ==
  LET e == IF err = NoErr /\ res.n # r.out.len
           THEN createReturnError(name, res.n, r.out.len) ELSE err
  IN Notify(r, e, r.out)

\* function(err, res) of the loads: callback(err) only.
onLoadStatus(r, name, err, res) ==
  LET e == IF err = NoErr /\ res.n # 0 THEN createNonZeroReturnError(name, res.n) ELSE err
  IN Notify(r, e, Absent)

\* Faulty variant of passDecrypt's completion: the returned value is
\* classified as a status, as in the operations around it.
passDecrypt_onDecrypt_status(r, err, res) == onStatus(r, "tox_pass_decrypt", err, res)

\* Faulty variant of encryptedKeyLoad's completion: the error names the
\* passphrase load instead of the primitive that was called.
encryptedKeyLoad_onLoad_wrongName(r, err, res) ==
  onLoadStatus(r, "tox_encrypted_load", err, res)

passEncrypt_onEncrypt(r, err, res) == onStatus(r, "tox_pass_encrypt", err, res)
passDecrypt_onDecrypt(r, err, res) == onByteCount(r, "tox_pass_decrypt", err, res)
encryptedLoad_onLoad(r, err, res) == onLoadStatus(r, "tox_encrypted_load", err, res)
encryptedSave_onSave(r, err, res) == onStatus(r, "tox_encrypted_save", err, res)
deriveKeyFromPass_onDerive(r, err, res) == onStatus(r, "tox_derive_key_from_pass", err, res)
deriveKeyWithSalt_onDerive(r, err, res) == onStatus(r, "tox_derive_key_with_salt", err, res)
getSalt_onSalt(r, err, res) == onStatus(r, "tox_get_salt", err, res)
passKeyEncrypt_onEncrypt(r, err, res) == onStatus(r, "tox_pass_key_encrypt", err, res)
passKeyDecrypt_onDecrypt(r, err, res) == onByteCount(r, "tox_pass_key_decrypt", err, res)
encryptedKeySave_onSave(r, err, res) == onStatus(r, "tox_encrypted_key_save", err, res)
encryptedKeyLoad_onLoad(r, err, res) == onLoadStatus(r, "tox_encrypted_key_load", err, res)

\* Faulty variant of isDataEncrypted's completion: the returned value is
\* coerced to a boolean instead of being compared with 1.
isDataEncrypted_onResult_coerced(r, err, res) ==
  Notify(r, err, IF err = NoErr THEN BoolVal(res.n # 0) ELSE Absent)

\* isDataEncrypted's function(err, res): isEnc stays undefined on an error.
isDataEncrypted_onResult(r, err, res) ==
  Notify(r, err, IF err = NoErr THEN BoolVal(res.n = 1) ELSE Absent)

\* Body of a length callback, function(err, len), when !err: allocate the
\* output buffer of n bytes and put the main primitive in flight.  The
\* callback runs from the event loop, so a throwing allocation is uncaught.
AsyncMain(r, n, c, callback) ==
  IF AllocThrows(n) THEN Uncaught(r, RangeError)
  ELSE LET a == NewBuffer(r, n)
           f == ffiAsync(a, [c EXCEPT !.buf = a.out], callback)
       IN IF Thrown(f) THEN Uncaught(a, TypeError) ELSE f

\* Faulty variant of passEncrypt's length callback: the output buffer is
\* sized without the extra length the query reported.
passEncrypt_onExtraLength_unsized(r, err, extraLength) ==
  IF err = NoErr
  THEN AsyncMain(r, length(r.data),
                 Call("tox_pass_encrypt", "none", r.data, length(r.data),
                      r.secret, length(r.secret), NoBuf), "passEncrypt_onEncrypt")
  ELSE Notify(r, err, Absent)

\* Faulty variant of passKeyEncrypt's length callback: the error of the
\* length query is ignored and the encrypt primitive is called regardless.
passKeyEncrypt_onExtraLength_ignoresError(r, err, extraLength) ==
  AsyncMain(r, length(r.data) + (IF err = NoErr THEN extraLength.n ELSE 0),
            Call("tox_pass_key_encrypt", "none", r.data, length(r.data),
                 r.secret, NoLen, NoBuf), "passKeyEncrypt_onEncrypt")

passEncrypt_onExtraLength(r, err, extraLength) ==
  IF err = NoErr
  THEN AsyncMain(r, length(r.data) + extraLength.n,
                 Call("tox_pass_encrypt", "none", r.data, length(r.data),
                      r.secret, length(r.secret), NoBuf), "passEncrypt_onEncrypt")
  ELSE Notify(r, err, Absent)

passDecrypt_onExtraLength(r, err, extraLength) ==
  IF err = NoErr
  THEN AsyncMain(r, length(r.data) - extraLength.n,
                 Call("tox_pass_decrypt", "none", r.data, length(r.data),
                      r.secret, length(r.secret), NoBuf), "passDecrypt_onDecrypt")
  ELSE Notify(r, err, Absent)

\* encryptedSave's callback as it would be with the handle captured at entry.
encryptedSave_onSize_captured(r, err, encSize) ==
  IF err = NoErr
  THEN AsyncMain(r, encSize.n,
                 Call("tox_encrypted_save", r.handleAtEntry, NoArg, NoLen,
                      r.secret, length(r.secret), NoBuf), "encryptedSave_onSave")
  ELSE Notify(r, err, Absent)

encryptedSave_onSize(r, err, encSize) ==
  IF err = NoErr
  THEN AsyncMain(r, encSize.n,
                 Call("tox_encrypted_save", getHandle, NoArg, NoLen,
                      r.secret, length(r.secret), NoBuf), "encryptedSave_onSave")
  ELSE Notify(r, err, Absent)

\* The passphrase is converted inside the callback, after the allocation.
deriveKeyFromPass_onKeyLength(r, err, keyLength) ==
  IF err = NoErr
  THEN LET r1 == [r EXCEPT !.secret = ToBuffer(@)]
       IN AsyncMain(r1, keyLength.n,
                    Call("tox_derive_key_from_pass", "none", NoArg, NoLen,
                         r1.secret, length(r1.secret), NoBuf), "deriveKeyFromPass_onDerive")
  ELSE Notify(r, err, Absent)

deriveKeyWithSalt_onKeyLength(r, err, keyLength) ==
  IF err = NoErr
  THEN LET r1 == [r EXCEPT !.secret = ToBuffer(@)]
       IN AsyncMain(r1, keyLength.n,
                    Call("tox_derive_key_with_salt", "none", r1.data, NoLen,
                         r1.secret, length(r1.secret), NoBuf), "deriveKeyWithSalt_onDerive")
  ELSE Notify(r, err, Absent)

passKeyEncrypt_onExtraLength(r, err, extraLength) ==
  IF err = NoErr
  THEN AsyncMain(r, length(r.data) + extraLength.n,
                 Call("tox_pass_key_encrypt", "none", r.data, length(r.data),
                      r.secret, NoLen, NoBuf), "passKeyEncrypt_onEncrypt")
  ELSE Notify(r, err, Absent)

passKeyDecrypt_onExtraLength(r, err, extraLength) ==
  IF err = NoErr
  THEN AsyncMain(r, length(r.data) - extraLength.n,
                 Call("tox_pass_key_decrypt", "none", r.data, length(r.data),
                      r.secret, NoLen, NoBuf), "passKeyDecrypt_onDecrypt")
  ELSE Notify(r, err, Absent)

\* Faulty variant of encryptedKeySave's size callback: the save primitive
\* is called without the session handle.
encryptedKeySave_onSize_noHandle(r, err, encSize) ==
  IF err = NoErr
  THEN AsyncMain(r, encSize.n,
                 Call("tox_encrypted_key_save", "undefined", NoArg, NoLen,
                      r.secret, NoLen, NoBuf), "encryptedKeySave_onSave")
  ELSE Notify(r, err, Absent)

encryptedKeySave_onSize(r, err, encSize) ==
  IF err = NoErr
  THEN AsyncMain(r, encSize.n,
                 Call("tox_encrypted_key_save", getHandle, NoArg, NoLen,
                      r.secret, NoLen, NoBuf), "encryptedKeySave_onSave")
  ELSE Notify(r, err, Absent)

\* callback(err, res): run the function a label names.
InvokeCallback(r, callback, err, res) ==
  CASE callback = "handler" -> Finish(HandlerCall(r, err, res))
    [] callback = "absent" -> Uncaught(r, TypeError)
    [] callback = "passEncrypt_onExtraLength" -> passEncrypt_onExtraLength(r, err, res)
    [] callback = "passEncrypt_onEncrypt" -> passEncrypt_onEncrypt(r, err, res)
    [] callback = "passDecrypt_onExtraLength" -> passDecrypt_onExtraLength(r, err, res)
    [] callback = "passDecrypt_onDecrypt" -> passDecrypt_onDecrypt(r, err, res)
    [] callback = "encryptedLoad_onLoad" -> encryptedLoad_onLoad(r, err, res)
    [] callback = "encryptedSave_onSize" -> encryptedSave_onSize(r, err, res)
    [] callback = "encryptedSave_onSave" -> encryptedSave_onSave(r, err, res)
    [] callback = "deriveKeyFromPass_onKeyLength" -> deriveKeyFromPass_onKeyLength(r, err, res)
    [] callback = "deriveKeyFromPass_onDerive" -> deriveKeyFromPass_onDerive(r, err, res)
    [] callback = "deriveKeyWithSalt_onKeyLength" -> deriveKeyWithSalt_onKeyLength(r, err, res)
    [] callback = "deriveKeyWithSalt_onDerive" -> deriveKeyWithSalt_onDerive(r, err, res)
    [] callback = "getSalt_onSalt" -> getSalt_onSalt(r, err, res)
    [] callback = "passKeyEncrypt_onExtraLength" -> passKeyEncrypt_onExtraLength(r, err, res)
    [] callback = "passKeyEncrypt_onEncrypt" -> passKeyEncrypt_onEncrypt(r, err, res)
    [] callback = "passKeyDecrypt_onExtraLength" -> passKeyDecrypt_onExtraLength(r, err, res)
    [] callback = "passKeyDecrypt_onDecrypt" -> passKeyDecrypt_onDecrypt(r, err, res)
    [] callback = "encryptedKeySave_onSize" -> encryptedKeySave_onSize(r, err, res)
    [] callback = "encryptedKeySave_onSave" -> encryptedKeySave_onSave(r, err, res)
    [] callback = "encryptedKeyLoad_onLoad" -> encryptedKeyLoad_onLoad(r, err, res)
    [] callback = "isDataEncrypted_onResult" -> isDataEncrypted_onResult(r, err, res)

\* ToxEncryptSave.prototype._checkHandle: the returned boolean is r.gate.
_checkHandle(r, callback) ==
  IF ~Truthy(getHandle) /\ callback # "absent"
  THEN [InvokeCallback(r, callback, _createNoHandleError, Absent) EXCEPT !.gate = FALSE]
  ELSE [r EXCEPT !.gate = TRUE]

getEncryptionExtraLength(r, callback) ==
  IF _useSync(callback) THEN getEncryptionExtraLengthSync(Path(r, "blocking"))
  ELSE ffiAsync(Path(r, "nonblocking"),
                LenCall("tox_pass_encryption_extra_length", "none"), callback)

getKeyLength(r, callback) ==
  IF _useSync(callback) THEN getKeyLengthSync(Path(r, "blocking"))
  ELSE ffiAsync(Path(r, "nonblocking"), LenCall("tox_pass_key_length", "none"), callback)

getSaltLength(r, callback) ==
  IF _useSync(callback) THEN getSaltLengthSync(Path(r, "blocking"))
  ELSE ffiAsync(Path(r, "nonblocking"), LenCall("tox_pass_salt_length", "none"), callback)

getEncryptedSize(r, callback) ==
  IF _useSync(callback) THEN getEncryptedSizeSync(Path(r, "blocking"))
  ELSE LET g == _checkHandle(Path(r, "nonblocking"), callback)
       IN IF ~g.gate THEN g
          ELSE ffiAsync(g, LenCall("tox_encrypted_size", getHandle), callback)

passEncrypt(r, callback) ==
  IF _useSync(callback) THEN passEncryptSync(Path(r, "blocking"))
  ELSE getEncryptionExtraLength([r EXCEPT !.data = ToBuffer(@), !.secret = ToBuffer(@)],
                                "passEncrypt_onExtraLength")

passDecrypt(r, callback) ==
  IF _useSync(callback) THEN passDecryptSync(Path(r, "blocking"))
  ELSE getEncryptionExtraLength([r EXCEPT !.data = ToBuffer(@), !.secret = ToBuffer(@)],
                                "passDecrypt_onExtraLength")

encryptedLoad(r, callback) ==
  IF _useSync(callback) THEN encryptedLoadSync(Path(r, "blocking"))
  ELSE LET g == _checkHandle(Path(r, "nonblocking"), callback)
           r1 == [g EXCEPT !.data = ToBuffer(@), !.secret = ToBuffer(@)]
       IN IF ~g.gate THEN g
          ELSE ffiAsync(r1, Call("tox_encrypted_load", getHandle, r1.data, length(r1.data),
                                 r1.secret, length(r1.secret), NoBuf),
                        "encryptedLoad_onLoad")

encryptedSave(r, callback) ==
  IF _useSync(callback) THEN encryptedSaveSync(Path(r, "blocking"))
  ELSE LET g == _checkHandle(Path(r, "nonblocking"), callback)
       IN IF ~g.gate THEN g
          ELSE getEncryptedSize([g EXCEPT !.secret = ToBuffer(@)], "encryptedSave_onSize")

deriveKeyFromPass(r, callback) ==
  IF _useSync(callback) THEN deriveKeyFromPassSync(Path(r, "blocking"))
  ELSE getKeyLength(r, "deriveKeyFromPass_onKeyLength")

deriveKeyWithSalt(r, callback) ==
  IF _useSync(callback) THEN deriveKeyWithSaltSync(Path(r, "blocking"))
  ELSE getKeyLength(r, "deriveKeyWithSalt_onKeyLength")

getSalt(r, callback) ==
  IF _useSync(callback) THEN getSaltSync(Path(r, "blocking"))
  ELSE LET a == NewBuffer(Path(r, "nonblocking"), TOX_SALT_LENGTH)
       IN ffiAsync(a, Call("tox_get_salt", "none", a.data, NoLen, NoArg, NoLen, a.out),
                   "getSalt_onSalt")

passKeyEncrypt(r, callback) ==
  IF _useSync(callback) THEN passKeyEncryptSync(Path(r, "blocking"))
  ELSE getEncryptionExtraLength([r EXCEPT !.data = ToBuffer(@)],
                                "passKeyEncrypt_onExtraLength")

passKeyDecrypt(r, callback) ==
  IF _useSync(callback) THEN passKeyDecryptSync(Path(r, "blocking"))
  ELSE getEncryptionExtraLength(r, "passKeyDecrypt_onExtraLength")

encryptedKeySave(r, callback) ==
  IF _useSync(callback) THEN encryptedKeySaveSync(Path(r, "blocking"))
  ELSE LET g == _checkHandle(Path(r, "nonblocking"), callback)
       IN IF ~g.gate THEN g
          ELSE getEncryptedSize(g, "encryptedKeySave_onSize")

encryptedKeyLoad(r, callback) ==
  IF _useSync(callback) THEN encryptedKeyLoadSync(Path(r, "blocking"))
  ELSE LET g == _checkHandle(Path(r, "nonblocking"), callback)
       IN IF ~g.gate THEN g
          ELSE ffiAsync(g, Call("tox_encrypted_key_load", getHandle, g.data, length(g.data),
                                g.secret, NoLen, NoBuf), "encryptedKeyLoad_onLoad")

isDataEncrypted(r, callback) ==
  IF _useSync(callback) THEN isDataEncryptedSync(Path(r, "blocking"))
  ELSE ffiAsync(Path(r, "nonblocking"),
                Call("tox_is_data_encrypted", "none", r.data, NoLen, NoArg, NoLen, NoBuf),
                "isDataEncrypted_onResult")

-----------------------------------------------------------------------------
\* Arguments callers pass and answers providers give.

DataBuffers == {Buf(b) : b \in SeqsUpTo(Bytes, MaxLen)}
DataStrings == {Str(c) : c \in SeqsUpTo(Chars, MaxStrLen)}
DataVals == DataBuffers \cup DataStrings
Passphrases == {Buf(<<97>>), Str(<<"e_acute">>)}
Keys == {Buf(<<97>>)}
Salts == {Buf(<<97>>)}

Extras == 0..MaxExtra
Sizes == 0..MaxSize
Rets == (-1)..MaxRet

ProvExtra == {Provider(e, 0, 0, 0, 0) : e \in Extras}
ProvKeyLen == {Provider(0, n, 0, 0, 0) : n \in Sizes}
ProvSaltLen == {Provider(0, 0, n, 0, 0) : n \in Sizes}
ProvEncSize == {Provider(0, 0, 0, n, 0) : n \in Sizes}
ProvCrypt == {Provider(e, 0, 0, 0, x) : e \in Extras, x \in Rets}
ProvDerive == {Provider(0, n, 0, 0, x) : n \in Sizes, x \in Rets}
ProvSave == {Provider(0, 0, 0, n, x) : n \in Sizes, x \in Rets}
ProvMain == {Provider(0, 0, 0, 0, x) : x \in Rets}

\* The last argument of a non-blocking entry point.
CbArg(cb) == IF cb THEN "handler" ELSE "absent"

\* Values a caller can pass to the constructor: undefined, null, a Tox
\* instance, or an options object whose 'sync' property is absent
\* ("undefined") or one of a few JavaScript values.
Undefined == [t |-> "undefined"]
Null == [t |-> "null"]
ToxInstance == [t |-> "Tox"]
Opts(sync) == [t |-> "Object", sync |-> sync]
SyncValues == {"undefined", "null", "true", "false", "0", "1", "''", "'x'"}

\* !!v for the values of SyncValues.
ToBoolean(v) == v \in {"true", "1", "'x'"}

\* Faulty variant of the constructor: a single argument is always taken as
\* the session, so a lone options object is dropped.
ToxEncryptSave_singleArgIsTox(arguments) ==
  LET tox == IF Len(arguments) >= 1 THEN arguments[1] ELSE Undefined
      opts == IF Len(arguments) >= 2 THEN arguments[2] ELSE Undefined
      sync == IF opts.t = "Object" THEN opts.sync ELSE "undefined"
  IN [_tox |-> IF tox.t = "Tox" THEN "tox" ELSE "undefined",
      _sync |-> IF sync = "undefined" \/ sync = "null" THEN TRUE ELSE ToBoolean(sync)]

\* this._sync from opts['sync'].
ToxEncryptSave_sync(optSync) ==
  IF optSync = "undefined" \/ optSync = "null" THEN TRUE ELSE ToBoolean(optSync)

\* var ToxEncryptSave = function(tox, opts): the fields it sets.
ToxEncryptSave(arguments) ==
  LET tox0 == IF Len(arguments) >= 1 THEN arguments[1] ELSE Undefined
      opts0 == IF Len(arguments) >= 2 THEN arguments[2] ELSE Undefined
      single == Len(arguments) = 1 /\ tox0.t # "Tox"
      tox1 == IF single THEN Undefined ELSE tox0
      opts1 == IF single THEN tox0 ELSE opts0
      tox2 == IF tox1.t # "Tox" THEN Undefined ELSE tox1
      opts2 == IF opts1.t \in {"undefined", "null"} THEN Opts("undefined") ELSE opts1
      sync == IF opts2.t = "Object" THEN opts2.sync ELSE "undefined"
  IN [_tox |-> IF tox2.t = "Tox" THEN "tox" ELSE "undefined",
      _sync |-> ToxEncryptSave_sync(sync)]

\* Constructor calls: every one of up to two arguments, and the few that
\* are enough to give each combination of session and sync flag.
CtorValues == {Undefined, Null, ToxInstance} \cup {Opts(v) : v \in SyncValues}
AllCtorArgs == {<<>>} \cup {<<a>> : a \in CtorValues}
               \cup {<<a, b>> : a \in CtorValues, b \in CtorValues}
BasicCtorArgs ==
  {<<>>, <<Opts("false")>>, <<ToxInstance>>, <<ToxInstance, Opts("false")>>}

\* What the runtime and the ffi build leave open.  Callers that pass
\* Buffers where the documentation asks for Buffers never meet the last one.
AllBuilds ==
  [bufferThrows : BOOLEAN, asyncChecksCallback : BOOLEAN, asyncThrowsBadArg : BOOLEAN]
BufferBuilds == {b \in AllBuilds : b.asyncThrowsBadArg}

\* The state after `new ToxEncryptSave(...)` with arguments from A on a
\* build from B; the callers of the slots in `active` are about to invoke
\* a method.
Constructed(A, B, active) ==
  /\ ctorArgs \in A
  /\ _tox = ToxEncryptSave(ctorArgs)._tox
  /\ _sync = ToxEncryptSave(ctorArgs)._sync
  /\ toxHandle \in (IF _tox = "tox" THEN {"h1", "null"} ELSE {"null"})
  /\ build \in B
  /\ ops = [s \in Slots |-> IF s \in active THEN [Unused(s) EXCEPT !.pc = "idle"]
                              ELSE Unused(s)]

Init == Constructed(BasicCtorArgs, BufferBuilds, {1})

Env == <<ctorArgs, _tox, toxHandle, _sync, build>>

\* A caller invokes an entry point in slot s; `run` is the record after the
\* function has returned.
Enter(s, run) == ops' = [ops EXCEPT ![s] = run] /\ UNCHANGED Env
Idle(s) == ops[s].pc = "idle"

Call_getEncryptionExtraLength(s) ==
  /\ Idle(s)
  /\ \E cb \in BOOLEAN, pv \in ProvExtra :
       Enter(s, getEncryptionExtraLength(
                  Started(s, "getEncryptionExtraLength", "async", NoArg, NoArg, cb, pv),
                  CbArg(cb)))

Call_getEncryptionExtraLengthSync(s) ==
  /\ Idle(s)
  /\ \E pv \in ProvExtra :
       Enter(s, getEncryptionExtraLengthSync(Path(
                  Started(s, "getEncryptionExtraLength", "sync", NoArg, NoArg, FALSE, pv),
                  "blocking")))

Call_getKeyLength(s) ==
  /\ Idle(s)
  /\ \E cb \in BOOLEAN, pv \in ProvKeyLen :
       Enter(s, getKeyLength(Started(s, "getKeyLength", "async", NoArg, NoArg, cb, pv),
                             CbArg(cb)))

Call_getKeyLengthSync(s) ==
  /\ Idle(s)
  /\ \E pv \in ProvKeyLen :
       Enter(s, getKeyLengthSync(Path(
                  Started(s, "getKeyLength", "sync", NoArg, NoArg, FALSE, pv), "blocking")))

Call_getSaltLength(s) ==
  /\ Idle(s)
  /\ \E cb \in BOOLEAN, pv \in ProvSaltLen :
       Enter(s, getSaltLength(Started(s, "getSaltLength", "async", NoArg, NoArg, cb, pv),
                              CbArg(cb)))

Call_getSaltLengthSync(s) ==
  /\ Idle(s)
  /\ \E pv \in ProvSaltLen :
       Enter(s, getSaltLengthSync(Path(
                  Started(s, "getSaltLength", "sync", NoArg, NoArg, FALSE, pv), "blocking")))

Call_getEncryptedSize(s) ==
  /\ Idle(s)
  /\ \E cb \in BOOLEAN, pv \in ProvEncSize :
       Enter(s, getEncryptedSize(
                  Started(s, "getEncryptedSize", "async", NoArg, NoArg, cb, pv), CbArg(cb)))

Call_getEncryptedSizeSync(s) ==
  /\ Idle(s)
  /\ \E pv \in ProvEncSize :
       Enter(s, getEncryptedSizeSync(Path(
                  Started(s, "getEncryptedSize", "sync", NoArg, NoArg, FALSE, pv),
                  "blocking")))

Call_passEncrypt(s) ==
  /\ Idle(s)
  /\ \E d \in DataVals, p \in Passphrases, cb \in BOOLEAN, pv \in ProvCrypt :
       Enter(s, passEncrypt(Started(s, "passEncrypt", "async", d, p, cb, pv), CbArg(cb)))

Call_passEncryptSync(s) ==
  /\ Idle(s)
  /\ \E d \in DataVals, p \in Passphrases, pv \in ProvCrypt :
       Enter(s, passEncryptSync(Path(
                  Started(s, "passEncrypt", "sync", d, p, FALSE, pv), "blocking")))

Call_passDecrypt(s) ==
  /\ Idle(s)
  /\ \E d \in DataVals, p \in Passphrases, cb \in BOOLEAN, pv \in ProvCrypt :
       Enter(s, passDecrypt(Started(s, "passDecrypt", "async", d, p, cb, pv), CbArg(cb)))

Call_passDecryptSync(s) ==
  /\ Idle(s)
  /\ \E d \in DataVals, p \in Passphrases, pv \in ProvCrypt :
       Enter(s, passDecryptSync(Path(
                  Started(s, "passDecrypt", "sync", d, p, FALSE, pv), "blocking")))

Call_encryptedLoad(s) ==
  /\ Idle(s)
  /\ \E d \in DataVals, p \in Passphrases, cb \in BOOLEAN, pv \in ProvMain :
       Enter(s, encryptedLoad(Started(s, "encryptedLoad", "async", d, p, cb, pv), CbArg(cb)))

Call_encryptedLoadSync(s) ==
  /\ Idle(s)
  /\ \E d \in DataVals, p \in Passphrases, pv \in ProvMain :
       Enter(s, encryptedLoadSync(Path(
                  Started(s, "encryptedLoad", "sync", d, p, FALSE, pv), "blocking")))

Call_encryptedSave(s) ==
  /\ Idle(s)
  /\ \E p \in Passphrases, cb \in BOOLEAN, pv \in ProvSave :
       Enter(s, encryptedSave(Started(s, "encryptedSave", "async", NoArg, p, cb, pv),
                              CbArg(cb)))

Call_encryptedSaveSync(s) ==
  /\ Idle(s)
  /\ \E p \in Passphrases, pv \in ProvSave :
       Enter(s, encryptedSaveSync(Path(
                  Started(s, "encryptedSave", "sync", NoArg, p, FALSE, pv), "blocking")))

Call_deriveKeyFromPass(s) ==
  /\ Idle(s)
  /\ \E p \in Passphrases, cb \in BOOLEAN, pv \in ProvDerive :
       Enter(s, deriveKeyFromPass(
                  Started(s, "deriveKeyFromPass", "async", NoArg, p, cb, pv), CbArg(cb)))

Call_deriveKeyFromPassSync(s) ==
  /\ Idle(s)
  /\ \E p \in Passphrases, pv \in ProvDerive :
       Enter(s, deriveKeyFromPassSync(Path(
                  Started(s, "deriveKeyFromPass", "sync", NoArg, p, FALSE, pv), "blocking")))

Call_deriveKeyWithSalt(s) ==
  /\ Idle(s)
  /\ \E p \in Passphrases, salt \in Salts, cb \in BOOLEAN, pv \in ProvDerive :
       Enter(s, deriveKeyWithSalt(
                  Started(s, "deriveKeyWithSalt", "async", salt, p, cb, pv), CbArg(cb)))

Call_deriveKeyWithSaltSync(s) ==
  /\ Idle(s)
  /\ \E p \in Passphrases, salt \in Salts, pv \in ProvDerive :
       Enter(s, deriveKeyWithSaltSync(Path(
                  Started(s, "deriveKeyWithSalt", "sync", salt, p, FALSE, pv), "blocking")))

Call_getSalt(s) ==
  /\ Idle(s)
  /\ \E d \in DataBuffers, cb \in BOOLEAN, pv \in ProvMain :
       Enter(s, getSalt(Started(s, "getSalt", "async", d, NoArg, cb, pv), CbArg(cb)))

Call_getSaltSync(s) ==
  /\ Idle(s)
  /\ \E d \in DataBuffers, pv \in ProvMain :
       Enter(s, getSaltSync(Path(
                  Started(s, "getSalt", "sync", d, NoArg, FALSE, pv), "blocking")))

Call_passKeyEncrypt(s) ==
  /\ Idle(s)
  /\ \E d \in DataVals, k \in Keys, cb \in BOOLEAN, pv \in ProvCrypt :
       Enter(s, passKeyEncrypt(Started(s, "passKeyEncrypt", "async", d, k, cb, pv),
                               CbArg(cb)))

Call_passKeyEncryptSync(s) ==
  /\ Idle(s)
  /\ \E d \in DataVals, k \in Keys, pv \in ProvCrypt :
       Enter(s, passKeyEncryptSync(Path(
                  Started(s, "passKeyEncrypt", "sync", d, k, FALSE, pv), "blocking")))

Call_passKeyDecrypt(s) ==
  /\ Idle(s)
  /\ \E d \in DataBuffers, k \in Keys, cb \in BOOLEAN, pv \in ProvCrypt :
       Enter(s, passKeyDecrypt(Started(s, "passKeyDecrypt", "async", d, k, cb, pv),
                               CbArg(cb)))

Call_passKeyDecryptSync(s) ==
  /\ Idle(s)
  /\ \E d \in DataBuffers, k \in Keys, pv \in ProvCrypt :
       Enter(s, passKeyDecryptSync(Path(
                  Started(s, "passKeyDecrypt", "sync", d, k, FALSE, pv), "blocking")))

Call_encryptedKeySave(s) ==
  /\ Idle(s)
  /\ \E k \in Keys, cb \in BOOLEAN, pv \in ProvSave :
       Enter(s, encryptedKeySave(Started(s, "encryptedKeySave", "async", NoArg, k, cb, pv),
                                 CbArg(cb)))

Call_encryptedKeySaveSync(s) ==
  /\ Idle(s)
  /\ \E k \in Keys, pv \in ProvSave :
       Enter(s, encryptedKeySaveSync(Path(
                  Started(s, "encryptedKeySave", "sync", NoArg, k, FALSE, pv), "blocking")))

Call_encryptedKeyLoad(s) ==
  /\ Idle(s)
  /\ \E d \in DataBuffers, k \in Keys, cb \in BOOLEAN, pv \in ProvMain :
       Enter(s, encryptedKeyLoad(Started(s, "encryptedKeyLoad", "async", d, k, cb, pv),
                                 CbArg(cb)))

Call_encryptedKeyLoadSync(s) ==
  /\ Idle(s)
  /\ \E d \in DataBuffers, k \in Keys, pv \in ProvMain :
       Enter(s, encryptedKeyLoadSync(Path(
                  Started(s, "encryptedKeyLoad", "sync", d, k, FALSE, pv), "blocking")))

Call_isDataEncrypted(s) ==
  /\ Idle(s)
  /\ \E d \in DataBuffers, cb \in BOOLEAN, pv \in ProvMain :
       Enter(s, isDataEncrypted(Started(s, "isDataEncrypted", "async", d, NoArg, cb, pv),
                                CbArg(cb)))

Call_isDataEncryptedSync(s) ==
  /\ Idle(s)
  /\ \E d \in DataBuffers, pv \in ProvMain :
       Enter(s, isDataEncryptedSync(Path(
                  Started(s, "isDataEncrypted", "sync", d, NoArg, FALSE, pv), "blocking")))

\* Callers that pass a String as the data of passKeyDecrypt, encryptedKeyLoad
\* and getSalt, whose documentation asks for a Buffer.
CallText_getSalt(s) ==
  /\ Idle(s)
  /\ \E d \in DataStrings, cb \in BOOLEAN, pv \in ProvMain :
       Enter(s, getSalt(Started(s, "getSalt", "async", d, NoArg, cb, pv), CbArg(cb)))

CallText_getSaltSync(s) ==
  /\ Idle(s)
  /\ \E d \in DataStrings, pv \in ProvMain :
       Enter(s, getSaltSync(Path(
                  Started(s, "getSalt", "sync", d, NoArg, FALSE, pv), "blocking")))

CallText_passKeyDecrypt(s) ==
  /\ Idle(s)
  /\ \E d \in DataStrings, k \in Keys, cb \in BOOLEAN, pv \in ProvCrypt :
       Enter(s, passKeyDecrypt(Started(s, "passKeyDecrypt", "async", d, k, cb, pv),
                               CbArg(cb)))

CallText_passKeyDecryptSync(s) ==
  /\ Idle(s)
  /\ \E d \in DataStrings, k \in Keys, pv \in ProvCrypt :
       Enter(s, passKeyDecryptSync(Path(
                  Started(s, "passKeyDecrypt", "sync", d, k, FALSE, pv), "blocking")))

CallText_encryptedKeyLoad(s) ==
  /\ Idle(s)
  /\ \E d \in DataStrings, k \in Keys, cb \in BOOLEAN, pv \in ProvMain :
       Enter(s, encryptedKeyLoad(Started(s, "encryptedKeyLoad", "async", d, k, cb, pv),
                                 CbArg(cb)))

CallText_encryptedKeyLoadSync(s) ==
  /\ Idle(s)
  /\ \E d \in DataStrings, k \in Keys, pv \in ProvMain :
       Enter(s, encryptedKeyLoadSync(Path(
                  Started(s, "encryptedKeyLoad", "sync", d, k, FALSE, pv), "blocking")))

-----------------------------------------------------------------------------
\* Completion of the round trip in flight: ffi runs the callback it was
\* handed, with (null, value) or with (error) when the round trip failed.

Resume(r, err) ==
  LET res == ProvAnswer(r, r.pend)
      d == [r EXCEPT !.calls = Append(@, Completed(r.pend, "async",
                                                  IF err = NoErr THEN res ELSE 0, err)),
                     !.mem = IF err # NoErr \/ r.pend.buf = NoBuf THEN @
                             ELSE ProvWrite(r, r.pend),
                     !.pc = "running", !.cont = "none", !.pend = NoCall,
                     !.terr = @ \/ err # NoErr]
  IN InvokeCallback(d, r.cont, err, IF err = NoErr THEN IntVal(res) ELSE Absent)

Complete(s) ==
  /\ ops[s].pc = "pending"
  /\ \E err \in {NoErr, TransportError} : ops' = [ops EXCEPT ![s] = Resume(ops[s], err)]
  /\ UNCHANGED Env

Complete_handler(s) == ops[s].cont = "handler" /\ Complete(s)
Complete_absent(s) == ops[s].cont = "absent" /\ Complete(s)
Complete_passEncrypt_onExtraLength(s) == ops[s].cont = "passEncrypt_onExtraLength" /\ Complete(s)
Complete_passEncrypt_onEncrypt(s) == ops[s].cont = "passEncrypt_onEncrypt" /\ Complete(s)
Complete_passDecrypt_onExtraLength(s) == ops[s].cont = "passDecrypt_onExtraLength" /\ Complete(s)
Complete_passDecrypt_onDecrypt(s) == ops[s].cont = "passDecrypt_onDecrypt" /\ Complete(s)
Complete_encryptedLoad_onLoad(s) == ops[s].cont = "encryptedLoad_onLoad" /\ Complete(s)
Complete_encryptedSave_onSize(s) == ops[s].cont = "encryptedSave_onSize" /\ Complete(s)
Complete_encryptedSave_onSave(s) == ops[s].cont = "encryptedSave_onSave" /\ Complete(s)
Complete_deriveKeyFromPass_onKeyLength(s) == ops[s].cont = "deriveKeyFromPass_onKeyLength" /\ Complete(s)
Complete_deriveKeyFromPass_onDerive(s) == ops[s].cont = "deriveKeyFromPass_onDerive" /\ Complete(s)
Complete_deriveKeyWithSalt_onKeyLength(s) == ops[s].cont = "deriveKeyWithSalt_onKeyLength" /\ Complete(s)
Complete_deriveKeyWithSalt_onDerive(s) == ops[s].cont = "deriveKeyWithSalt_onDerive" /\ Complete(s)
Complete_getSalt_onSalt(s) == ops[s].cont = "getSalt_onSalt" /\ Complete(s)
Complete_passKeyEncrypt_onExtraLength(s) == ops[s].cont = "passKeyEncrypt_onExtraLength" /\ Complete(s)
Complete_passKeyEncrypt_onEncrypt(s) == ops[s].cont = "passKeyEncrypt_onEncrypt" /\ Complete(s)
Complete_passKeyDecrypt_onExtraLength(s) == ops[s].cont = "passKeyDecrypt_onExtraLength" /\ Complete(s)
Complete_passKeyDecrypt_onDecrypt(s) == ops[s].cont = "passKeyDecrypt_onDecrypt" /\ Complete(s)
Complete_encryptedKeySave_onSize(s) == ops[s].cont = "encryptedKeySave_onSize" /\ Complete(s)
Complete_encryptedKeySave_onSave(s) == ops[s].cont = "encryptedKeySave_onSave" /\ Complete(s)
Complete_encryptedKeyLoad_onLoad(s) == ops[s].cont = "encryptedKeyLoad_onLoad" /\ Complete(s)
Complete_isDataEncrypted_onResult(s) == ops[s].cont = "isDataEncrypted_onResult" /\ Complete(s)

Next ==
  \E s \in Slots :
    \/ Call_getEncryptionExtraLength(s) \/ Call_getEncryptionExtraLengthSync(s)
    \/ Call_getKeyLength(s) \/ Call_getKeyLengthSync(s)
    \/ Call_getSaltLength(s) \/ Call_getSaltLengthSync(s)
    \/ Call_getEncryptedSize(s) \/ Call_getEncryptedSizeSync(s)
    \/ Call_passEncrypt(s) \/ Call_passEncryptSync(s)
    \/ Call_passDecrypt(s) \/ Call_passDecryptSync(s)
    \/ Call_encryptedLoad(s) \/ Call_encryptedLoadSync(s)
    \/ Call_encryptedSave(s) \/ Call_encryptedSaveSync(s)
    \/ Call_deriveKeyFromPass(s) \/ Call_deriveKeyFromPassSync(s)
    \/ Call_deriveKeyWithSalt(s) \/ Call_deriveKeyWithSaltSync(s)
    \/ Call_getSalt(s) \/ Call_getSaltSync(s)
    \/ Call_passKeyEncrypt(s) \/ Call_passKeyEncryptSync(s)
    \/ Call_passKeyDecrypt(s) \/ Call_passKeyDecryptSync(s)
    \/ Call_encryptedKeySave(s) \/ Call_encryptedKeySaveSync(s)
    \/ Call_encryptedKeyLoad(s) \/ Call_encryptedKeyLoadSync(s)
    \/ Call_isDataEncrypted(s) \/ Call_isDataEncryptedSync(s)
    \/ Complete_handler(s) \/ Complete_absent(s)
    \/ Complete_passEncrypt_onExtraLength(s) \/ Complete_passEncrypt_onEncrypt(s)
    \/ Complete_passDecrypt_onExtraLength(s) \/ Complete_passDecrypt_onDecrypt(s)
    \/ Complete_encryptedLoad_onLoad(s)
    \/ Complete_encryptedSave_onSize(s) \/ Complete_encryptedSave_onSave(s)
    \/ Complete_deriveKeyFromPass_onKeyLength(s) \/ Complete_deriveKeyFromPass_onDerive(s)
    \/ Complete_deriveKeyWithSalt_onKeyLength(s) \/ Complete_deriveKeyWithSalt_onDerive(s)
    \/ Complete_getSalt_onSalt(s)
    \/ Complete_passKeyEncrypt_onExtraLength(s) \/ Complete_passKeyEncrypt_onEncrypt(s)
    \/ Complete_passKeyDecrypt_onExtraLength(s) \/ Complete_passKeyDecrypt_onDecrypt(s)
    \/ Complete_encryptedKeySave_onSize(s) \/ Complete_encryptedKeySave_onSave(s)
    \/ Complete_encryptedKeyLoad_onLoad(s)
    \/ Complete_isDataEncrypted_onResult(s)

Spec == Init /\ [][Next]_vars

\* The operations that take data, with callers that pass text to all of
\* them, on every build.
InitText == Constructed(BasicCtorArgs, AllBuilds, {1})

NextText ==
  \E s \in Slots :
    \/ Call_passEncrypt(s) \/ Call_passEncryptSync(s)
    \/ Call_passDecrypt(s) \/ Call_passDecryptSync(s)
    \/ Call_encryptedLoad(s) \/ Call_encryptedLoadSync(s)
    \/ Call_passKeyEncrypt(s) \/ Call_passKeyEncryptSync(s)
    \/ Call_getSalt(s) \/ Call_getSaltSync(s)
    \/ Call_passKeyDecrypt(s) \/ Call_passKeyDecryptSync(s)
    \/ Call_encryptedKeyLoad(s) \/ Call_encryptedKeyLoadSync(s)
    \/ CallText_getSalt(s) \/ CallText_getSaltSync(s)
    \/ CallText_passKeyDecrypt(s) \/ CallText_passKeyDecryptSync(s)
    \/ CallText_encryptedKeyLoad(s) \/ CallText_encryptedKeyLoadSync(s)
    \/ Complete_passEncrypt_onExtraLength(s) \/ Complete_passEncrypt_onEncrypt(s)
    \/ Complete_passDecrypt_onExtraLength(s) \/ Complete_passDecrypt_onDecrypt(s)
    \/ Complete_encryptedLoad_onLoad(s)
    \/ Complete_getSalt_onSalt(s)
    \/ Complete_passKeyEncrypt_onExtraLength(s) \/ Complete_passKeyEncrypt_onEncrypt(s)
    \/ Complete_passKeyDecrypt_onExtraLength(s) \/ Complete_passKeyDecrypt_onDecrypt(s)
    \/ Complete_encryptedKeyLoad_onLoad(s)

SpecText == InitText /\ [][NextText]_vars

\* Callers that invoke passEncrypt and passDecrypt with a handler while
\* other invocations are in flight.
ConcData == {Buf(<<>>), Str(<<"e_acute">>)}
ConcProviders == {Provider(1, 0, 0, 0, x) : x \in {0, 1}}

Conc_passEncrypt(s) ==
  /\ Idle(s)
  /\ \E d \in ConcData, pv \in ConcProviders :
       Enter(s, passEncrypt(Started(s, "passEncrypt", "async", d, Buf(<<97>>), TRUE, pv),
                            "handler"))

Conc_passDecrypt(s) ==
  /\ Idle(s)
  /\ \E d \in ConcData, pv \in ConcProviders :
       Enter(s, passDecrypt(Started(s, "passDecrypt", "async", d, Buf(<<97>>), TRUE, pv),
                            "handler"))

InitConc ==
  Constructed({<<>>}, {b \in BufferBuilds : b.asyncChecksCallback}, Slots)

NextConc ==
  \E s \in Slots :
    \/ Conc_passEncrypt(s) \/ Conc_passDecrypt(s)
    \/ Complete_passEncrypt_onExtraLength(s) \/ Complete_passEncrypt_onEncrypt(s)
    \/ Complete_passDecrypt_onExtraLength(s) \/ Complete_passDecrypt_onDecrypt(s)

SpecConc == InitConc /\ [][NextConc]_vars

\* Round trips through the inverting provider: a caller encrypts non-empty
\* data in slot s - 1 and, having received the ciphertext, decrypts it in
\* slot s with the same secret.
PlainData == {d \in DataVals : d.v # <<>>}

\* The ciphertext a successful encrypt delivered, as the Buffer it is.
Ciphertext(r) == Buf(r.mem)

RT_passEncrypt(s) ==
  /\ Idle(s)
  /\ \E d \in PlainData, p \in Passphrases, cb \in BOOLEAN, e \in Extras :
       Enter(s, passEncrypt(Started(s, "passEncrypt", "async", d, p, cb,
                                    InvertingProvider(e)), CbArg(cb)))

RT_passEncryptSync(s) ==
  /\ Idle(s)
  /\ \E d \in PlainData, p \in Passphrases, e \in Extras :
       Enter(s, passEncryptSync(Path(Started(s, "passEncrypt", "sync", d, p, FALSE,
                                             InvertingProvider(e)), "blocking")))

RT_passKeyEncrypt(s) ==
  /\ Idle(s)
  /\ \E d \in PlainData, k \in Keys, cb \in BOOLEAN, e \in Extras :
       Enter(s, passKeyEncrypt(Started(s, "passKeyEncrypt", "async", d, k, cb,
                                       InvertingProvider(e)), CbArg(cb)))

RT_passKeyEncryptSync(s) ==
  /\ Idle(s)
  /\ \E d \in PlainData, k \in Keys, e \in Extras :
       Enter(s, passKeyEncryptSync(Path(Started(s, "passKeyEncrypt", "sync", d, k, FALSE,
                                                InvertingProvider(e)), "blocking")))

\* The caller of slot s holds the ciphertext of the encrypt `op` of slot s - 1.
Holds(s, op) ==
  /\ s - 1 \in Slots
  /\ ops[s].pc = "unused"
  /\ ops[s - 1].op = op
  /\ ops[s - 1].pc = "done"
  /\ IF ops[s - 1].path = "blocking" THEN ops[s - 1].ret.k = "value"
     ELSE ops[s - 1].cbCalls # <<>> /\ ops[s - 1].cbCalls[1].err = NoErr

RT_passDecrypt(s) ==
  /\ Holds(s, "passEncrypt")
  /\ \E cb \in BOOLEAN :
       Enter(s, passDecrypt(Started(s, "passDecrypt", "async", Ciphertext(ops[s - 1]),
                                    ops[s - 1].args.secret, cb, ops[s - 1].prov),
                            CbArg(cb)))

RT_passDecryptSync(s) ==
  /\ Holds(s, "passEncrypt")
  /\ Enter(s, passDecryptSync(Path(Started(s, "passDecrypt", "sync",
                                            Ciphertext(ops[s - 1]), ops[s - 1].args.secret,
                                            FALSE, ops[s - 1].prov), "blocking")))

RT_passKeyDecrypt(s) ==
  /\ Holds(s, "passKeyEncrypt")
  /\ \E cb \in BOOLEAN :
       Enter(s, passKeyDecrypt(Started(s, "passKeyDecrypt", "async",
                                       Ciphertext(ops[s - 1]), ops[s - 1].args.secret, cb,
                                       ops[s - 1].prov), CbArg(cb)))

RT_passKeyDecryptSync(s) ==
  /\ Holds(s, "passKeyEncrypt")
  /\ Enter(s, passKeyDecryptSync(Path(Started(s, "passKeyDecrypt", "sync",
                                               Ciphertext(ops[s - 1]),
                                               ops[s - 1].args.secret, FALSE,
                                               ops[s - 1].prov), "blocking")))

InitRT == Constructed({<<>>, <<Opts("false")>>}, BufferBuilds, {1})

NextRT ==
  \E s \in Slots :
    \/ RT_passEncrypt(s) \/ RT_passEncryptSync(s)
    \/ RT_passKeyEncrypt(s) \/ RT_passKeyEncryptSync(s)
    \/ RT_passDecrypt(s) \/ RT_passDecryptSync(s)
    \/ RT_passKeyDecrypt(s) \/ RT_passKeyDecryptSync(s)
    \/ Complete_passEncrypt_onExtraLength(s) \/ Complete_passEncrypt_onEncrypt(s)
    \/ Complete_passDecrypt_onExtraLength(s) \/ Complete_passDecrypt_onDecrypt(s)
    \/ Complete_passKeyEncrypt_onExtraLength(s) \/ Complete_passKeyEncrypt_onEncrypt(s)
    \/ Complete_passKeyDecrypt_onExtraLength(s) \/ Complete_passKeyDecrypt_onDecrypt(s)

SpecRT == InitRT /\ [][NextRT]_vars

\* Every way of constructing the facade, followed by the operations that
\* show the session and the sync flag it ended up with.
InitCtor == Constructed(AllCtorArgs, BufferBuilds, {1})

NextCtor ==
  \E s \in Slots :
    \/ Call_getEncryptedSize(s) \/ Call_getEncryptedSizeSync(s)
    \/ Call_isDataEncrypted(s) \/ Call_isDataEncryptedSync(s)
    \/ Complete_handler(s) \/ Complete_absent(s)
    \/ Complete_isDataEncrypted_onResult(s)

SpecCtor == InitCtor /\ [][NextCtor]_vars

\* The session's handle changes while the facade is in use: the session
\* collaborator frees its handle or creates one, at any moment between two
\* steps of the facade.  The caller makes one invocation and, once it is
\* over and the handle has changed, makes the same invocation again.

\* The session collaborator sets its `handle` property, which getHandle reads.
SetHandle ==
  /\ _tox = "tox"
  /\ toxHandle' \in {"h1", "null"} \ {toxHandle}
  /\ UNCHANGED <<ctorArgs, _tox, _sync, build, ops>>

\* The method of the facade that the started invocation r names.
Method(r) ==
  CASE r.op = "getEncryptionExtraLength" /\ r.entry = "async" -> getEncryptionExtraLength(r, CbArg(r.cb))
    [] r.op = "getEncryptionExtraLength" /\ r.entry = "sync" -> getEncryptionExtraLengthSync(Path(r, "blocking"))
    [] r.op = "getKeyLength" /\ r.entry = "async" -> getKeyLength(r, CbArg(r.cb))
    [] r.op = "getKeyLength" /\ r.entry = "sync" -> getKeyLengthSync(Path(r, "blocking"))
    [] r.op = "getSaltLength" /\ r.entry = "async" -> getSaltLength(r, CbArg(r.cb))
    [] r.op = "getSaltLength" /\ r.entry = "sync" -> getSaltLengthSync(Path(r, "blocking"))
    [] r.op = "getEncryptedSize" /\ r.entry = "async" -> getEncryptedSize(r, CbArg(r.cb))
    [] r.op = "getEncryptedSize" /\ r.entry = "sync" -> getEncryptedSizeSync(Path(r, "blocking"))
    [] r.op = "passEncrypt" /\ r.entry = "async" -> passEncrypt(r, CbArg(r.cb))
    [] r.op = "passEncrypt" /\ r.entry = "sync" -> passEncryptSync(Path(r, "blocking"))
    [] r.op = "passDecrypt" /\ r.entry = "async" -> passDecrypt(r, CbArg(r.cb))
    [] r.op = "passDecrypt" /\ r.entry = "sync" -> passDecryptSync(Path(r, "blocking"))
    [] r.op = "encryptedLoad" /\ r.entry = "async" -> encryptedLoad(r, CbArg(r.cb))
    [] r.op = "encryptedLoad" /\ r.entry = "sync" -> encryptedLoadSync(Path(r, "blocking"))
    [] r.op = "encryptedSave" /\ r.entry = "async" -> encryptedSave(r, CbArg(r.cb))
    [] r.op = "encryptedSave" /\ r.entry = "sync" -> encryptedSaveSync(Path(r, "blocking"))
    [] r.op = "deriveKeyFromPass" /\ r.entry = "async" -> deriveKeyFromPass(r, CbArg(r.cb))
    [] r.op = "deriveKeyFromPass" /\ r.entry = "sync" -> deriveKeyFromPassSync(Path(r, "blocking"))
    [] r.op = "deriveKeyWithSalt" /\ r.entry = "async" -> deriveKeyWithSalt(r, CbArg(r.cb))
    [] r.op = "deriveKeyWithSalt" /\ r.entry = "sync" -> deriveKeyWithSaltSync(Path(r, "blocking"))
    [] r.op = "getSalt" /\ r.entry = "async" -> getSalt(r, CbArg(r.cb))
    [] r.op = "getSalt" /\ r.entry = "sync" -> getSaltSync(Path(r, "blocking"))
    [] r.op = "passKeyEncrypt" /\ r.entry = "async" -> passKeyEncrypt(r, CbArg(r.cb))
    [] r.op = "passKeyEncrypt" /\ r.entry = "sync" -> passKeyEncryptSync(Path(r, "blocking"))
    [] r.op = "passKeyDecrypt" /\ r.entry = "async" -> passKeyDecrypt(r, CbArg(r.cb))
    [] r.op = "passKeyDecrypt" /\ r.entry = "sync" -> passKeyDecryptSync(Path(r, "blocking"))
    [] r.op = "encryptedKeySave" /\ r.entry = "async" -> encryptedKeySave(r, CbArg(r.cb))
    [] r.op = "encryptedKeySave" /\ r.entry = "sync" -> encryptedKeySaveSync(Path(r, "blocking"))
    [] r.op = "encryptedKeyLoad" /\ r.entry = "async" -> encryptedKeyLoad(r, CbArg(r.cb))
    [] r.op = "encryptedKeyLoad" /\ r.entry = "sync" -> encryptedKeyLoadSync(Path(r, "blocking"))
    [] r.op = "isDataEncrypted" /\ r.entry = "async" -> isDataEncrypted(r, CbArg(r.cb))
    [] r.op = "isDataEncrypted" /\ r.entry = "sync" -> isDataEncryptedSync(Path(r, "blocking"))

Repeat(s) ==
  /\ s - 1 \in Slots
  /\ \A u \in Slots : u >= s - 1
  /\ ops[s].pc = "unused"
  /\ ops[s - 1].pc \in {"done", "crashed"}
  /\ getHandle # ops[s - 1].handleAtEntry
  /\ LET p == ops[s - 1]
     IN Enter(s, Method(Started(s, p.op, p.entry, p.args.data, p.args.secret, p.cb,
                                p.prov)))

InitHandle == Constructed(BasicCtorArgs, {b \in BufferBuilds : b.bufferThrows}, {1})

NextHandle == SetHandle \/ Next \/ \E s \in Slots : Repeat(s)

SpecHandle == InitHandle /\ [][NextHandle]_vars

-----------------------------------------------------------------------------
\* Vocabulary of the properties.

HandleBound ==
  {"getEncryptedSize", "encryptedSave", "encryptedLoad", "encryptedKeySave",
   "encryptedKeyLoad"}
DecryptOps == {"passDecrypt", "passKeyDecrypt"}
EncryptOps == {"passEncrypt", "passKeyEncrypt"}
MultiStep ==
  {"passEncrypt", "passDecrypt", "passKeyEncrypt", "passKeyDecrypt", "deriveKeyFromPass",
   "deriveKeyWithSalt", "encryptedSave", "encryptedKeySave"}

\* The invocation has been made / has nothing left in flight.
Made(r) == r.pc \notin {"idle", "unused"}
Over(r) == r.pc \in {"done", "crashed"}

\* Number of bytes of an argument once it is a byte sequence.
ByteLen(x) == Len(ToBuffer(x).v)

\* The primitive an operation exists to call and the query that sizes it.
MainPrimitive(op) ==
  CASE op = "passEncrypt" -> "tox_pass_encrypt"
    [] op = "passDecrypt" -> "tox_pass_decrypt"
    [] op = "encryptedLoad" -> "tox_encrypted_load"
    [] op = "encryptedSave" -> "tox_encrypted_save"
    [] op = "deriveKeyFromPass" -> "tox_derive_key_from_pass"
    [] op = "deriveKeyWithSalt" -> "tox_derive_key_with_salt"
    [] op = "getSalt" -> "tox_get_salt"
    [] op = "passKeyEncrypt" -> "tox_pass_key_encrypt"
    [] op = "passKeyDecrypt" -> "tox_pass_key_decrypt"
    [] op = "encryptedKeySave" -> "tox_encrypted_key_save"
    [] op = "encryptedKeyLoad" -> "tox_encrypted_key_load"
    [] op = "isDataEncrypted" -> "tox_is_data_encrypted"
    [] OTHER -> "none"

SizeQuery(op) ==
  CASE op \in {"passEncrypt", "passDecrypt", "passKeyEncrypt", "passKeyDecrypt"} ->
         "tox_pass_encryption_extra_length"
    [] op \in {"deriveKeyFromPass", "deriveKeyWithSalt"} -> "tox_pass_key_length"
    [] op \in {"encryptedSave", "encryptedKeySave"} -> "tox_encrypted_size"
    [] OTHER -> "none"

IssuesOf(r, name) ==
  {i \in 1..Len(r.calls) : r.calls[i].ev = "issue" /\ r.calls[i].c.name = name}
CompletionsOf(r, name) ==
  {i \in 1..Len(r.calls) : r.calls[i].ev = "complete" /\ r.calls[i].c.name = name}

\* The error an invocation ended with, thrown or handed to the handler.
Failure(r) ==
  IF Thrown(r) THEN r.ret.e
  ELSE IF r.cbCalls # <<>> THEN r.cbCalls[1].err
  ELSE NoErr

\* What the caller of the blocking convention observes.
SyncOutcome(r) ==
  IF Thrown(r) THEN [k |-> "error", e |-> r.ret.e] ELSE [k |-> "value", v |-> r.ret.v]

\* What the handler of the non-blocking convention observes.
AsyncOutcome(r) ==
  IF r.cbCalls = <<>> THEN [k |-> "nothing"]
  ELSE IF r.cbCalls[1].err # NoErr THEN [k |-> "error", e |-> r.cbCalls[1].err]
  ELSE [k |-> "value", v |-> r.cbCalls[1].res]

\* The blocking twin run on the arguments, provider and handle of r.
Blocking(r) ==
  LET f == Path(Started(r.self, r.op, "sync", r.args.data, r.args.secret, FALSE, r.prov),
                "blocking")
  IN CASE r.op = "getEncryptionExtraLength" -> getEncryptionExtraLengthSync(f)
       [] r.op = "getKeyLength" -> getKeyLengthSync(f)
       [] r.op = "getSaltLength" -> getSaltLengthSync(f)
       [] r.op = "getEncryptedSize" -> getEncryptedSizeSync(f)
       [] r.op = "passEncrypt" -> passEncryptSync(f)
       [] r.op = "passDecrypt" -> passDecryptSync(f)
       [] r.op = "encryptedLoad" -> encryptedLoadSync(f)
       [] r.op = "encryptedSave" -> encryptedSaveSync(f)
       [] r.op = "deriveKeyFromPass" -> deriveKeyFromPassSync(f)
       [] r.op = "deriveKeyWithSalt" -> deriveKeyWithSaltSync(f)
       [] r.op = "getSalt" -> getSaltSync(f)
       [] r.op = "passKeyEncrypt" -> passKeyEncryptSync(f)
       [] r.op = "passKeyDecrypt" -> passKeyDecryptSync(f)
       [] r.op = "encryptedKeySave" -> encryptedKeySaveSync(f)
       [] r.op = "encryptedKeyLoad" -> encryptedKeyLoadSync(f)
       [] r.op = "isDataEncrypted" -> isDataEncryptedSync(f)

-----------------------------------------------------------------------------
\* C1: a handle-bound operation invoked while the session has no handle
\* reaches no provider primitive and, once over, has failed with the
\* no-handle error - on both conventions and for every combination of the
\* sync option and handler presence.
C1_NoHandleNeverReachesProvider ==
  \A s \in Slots :
    LET r == ops[s]
    IN (Made(r) /\ r.op \in HandleBound /\ ~Truthy(r.handleAtEntry))
       => /\ r.calls = <<>>
          /\ Over(r) => Failure(r).k = "NoHandle"

\* C2: a decrypt-class operation given fewer bytes than the provider's
\* extra length fails with InvalidInputLengthError, allocates no output
\* buffer and never calls the decrypt primitive.
C2_ShortInputRejected ==
  \A s \in Slots :
    LET r == ops[s]
    IN (Over(r) /\ r.op \in DecryptOps /\ ByteLen(r.args.data) < r.prov.extra)
       => /\ Failure(r).k = "InvalidInputLength"
          /\ r.out = NoBuf
          /\ IssuesOf(r, MainPrimitive(r.op)) = {}

\* C3: a non-blocking operation given a handler never calls it twice, and
\* once every round trip it issued has completed it has called it exactly
\* once.
C3_HandlerExactlyOnce ==
  \A s \in Slots :
    LET r == ops[s]
    IN (Made(r) /\ r.entry = "async" /\ r.cb)
       => /\ Len(r.cbCalls) <= 1
          /\ Over(r) => Len(r.cbCalls) = 1

\* C4: whenever the handler is called with an error as its first argument,
\* its second argument is absent.
C4_ErrorMeansNoResult ==
  \A s \in Slots :
    \A i \in 1..Len(ops[s].cbCalls) :
      ops[s].cbCalls[i].err # NoErr => ops[s].cbCalls[i].res = Absent

\* C5: with a provider that answers the same and fails no round trip, the
\* non-blocking convention hands its handler the outcome the blocking
\* convention returns or raises for the same arguments: the same value or
\* an error of the same kind and fields.
C5_ConventionsAgree ==
  \A s \in Slots :
    LET r == ops[s]
    IN (Over(r) /\ r.entry = "async" /\ r.cb /\ ~r.terr)
       => AsyncOutcome(r) = SyncOutcome(Blocking(r))

\* C6: with the sync option on, a non-blocking entry point called without
\* a handler returns the value or raises the error of its blocking twin
\* and makes the same provider calls in the same order.
C6_SyncOptionEmulatesBlocking ==
  \A s \in Slots :
    LET r == ops[s]
    IN (Made(r) /\ r.entry = "async" /\ ~r.cb /\ _sync)
       => /\ r.pc = "done"
          /\ r.ret = Blocking(r).ret
          /\ r.calls = Blocking(r).calls
          /\ r.cbCalls = <<>>

C6_Witness ==
  \E s \in Slots :
    LET r == ops[s]
    IN /\ Made(r) /\ r.entry = "async" /\ ~r.cb /\ _sync
       /\ r.op = "passDecrypt" /\ Thrown(r) /\ r.ret.e.k = "ReturnMismatch"
       /\ Len(r.calls) = 4

\* C7: a non-blocking entry point runs the blocking path exactly when no
\* handler is supplied and the sync option is on; with a handler, or with
\* the sync option off, it runs the non-blocking path, whose provider calls
\* are all asynchronous round trips.
C7_PathSelection ==
  \A s \in Slots :
    LET r == ops[s]
    IN (Made(r) /\ r.entry = "async")
       => /\ r.path = "blocking" <=> (~r.cb /\ _sync)
          /\ r.path = "nonblocking" <=> (r.cb \/ ~_sync)
          /\ \A i \in 1..Len(r.calls) :
               r.calls[i].mode = (IF ~r.cb /\ _sync THEN "sync" ELSE "async")

C7_Witness ==
  \E s \in Slots :
    LET r == ops[s]
    IN /\ Made(r) /\ r.entry = "async" /\ ~r.cb /\ ~_sync
       /\ r.path = "nonblocking" /\ r.op = "passEncrypt" /\ r.pc = "pending"

\* C8: a non-blocking operation started with the sync option off and no
\* handler never throws and never ends in an uncaught exception.
C8_FireAndForgetNeverCrashes ==
  \A s \in Slots :
    LET r == ops[s]
    IN (Made(r) /\ r.entry = "async" /\ ~r.cb /\ ~_sync)
       => r.pc # "crashed" /\ ~Thrown(r)

\* The output length the sizing rule gives an operation for a query result.
SizeRule(r, q) ==
  CASE r.op \in EncryptOps -> ByteLen(r.args.data) + q
    [] r.op \in DecryptOps ->
         IF ByteLen(r.args.data) - q < 0 THEN 0 ELSE ByteLen(r.args.data) - q
    [] OTHER -> q

\* C9: in a multi-step operation every issue of the main primitive comes
\* after the completion of the invocation's own size query, with no error,
\* and carries an output buffer sized from that query's result.
C9_MainAfterLengthQuery ==
  \A s \in Slots :
    LET r == ops[s]
    IN r.op \in MultiStep
       => \A i \in IssuesOf(r, MainPrimitive(r.op)) :
            \E j \in CompletionsOf(r, SizeQuery(r.op)) :
              /\ j < i
              /\ r.calls[j].err = NoErr
              /\ r.calls[i].c.buf.k = "buf"
              /\ r.calls[i].c.buf.len = SizeRule(r, r.calls[j].res)

C9_Witness ==
  \E s \in Slots :
    LET r == ops[s]
    IN /\ r.op = "passEncrypt" /\ r.entry = "async" /\ r.cb /\ r.pc = "pending"
       /\ r.prov.extra = 2 /\ IssuesOf(r, "tox_pass_encrypt") # {}
       /\ r.out.len = 4

\* The buffer a successful invocation returned or handed to the handler.
Delivered(r) == IF r.path = "blocking" THEN r.ret.v ELSE r.cbCalls[1].res
Succeeded(r) ==
  /\ Over(r)
  /\ IF r.path = "blocking" THEN r.ret.k = "value"
     ELSE r.cbCalls # <<>> /\ r.cbCalls[1].err = NoErr

\* C10: the buffer a successful passEncrypt or passKeyEncrypt delivers has
\* exactly (byte length of data) + (extra length) bytes and is the buffer
\* the encrypt primitive was given.
C10_EncryptBufferLength ==
  \A s \in Slots :
    LET r == ops[s]
    IN (r.op \in EncryptOps /\ Succeeded(r))
       => /\ Delivered(r).k = "buf"
          /\ Delivered(r).len = ByteLen(r.args.data) + r.prov.extra
          /\ \E i \in IssuesOf(r, MainPrimitive(r.op)) : r.calls[i].c.buf = Delivered(r)

C10_Witness ==
  \E s \in Slots :
    LET r == ops[s]
    IN /\ r.op = "passEncrypt" /\ r.entry = "sync" /\ Succeeded(r)
       /\ r.args.data = Str(<<"e_acute">>) /\ r.prov.extra = 2
       /\ Delivered(r).len = 4

\* Somebody observes the outcome: the caller of the blocking path or the
\* handler of the non-blocking one.
Observed(r) == r.path = "blocking" \/ r.cb

\* The main primitive of r was called and returned v.
MainReturned(r, v) ==
  \E i \in CompletionsOf(r, MainPrimitive(r.op)) :
    r.calls[i].err = NoErr /\ r.calls[i].res = v

\* A decrypt whose input is at least as long as the extra length and whose
\* primitive reported the failure status -1 (the secret is wrong).
WrongSecret(r) ==
  /\ r.op \in DecryptOps /\ Over(r) /\ Observed(r)
  /\ ByteLen(r.args.data) >= r.prov.extra
  /\ MainReturned(r, -1)

\* C12 (as stated): a decrypt of a well-sized ciphertext with the wrong
\* secret delivers a NonZeroReturnError, never a ReturnMismatchError.
C12_WrongSecretIsNonZeroReturn ==
  \A s \in Slots : WrongSecret(ops[s]) => Failure(ops[s]).k = "NonZeroReturn"

\* C12 (amended): a decrypt of a well-sized ciphertext with the wrong secret
\* delivers a ReturnMismatchError that names the decrypt primitive and
\* carries the status -1 and the expected output length, on both conventions.
C12_WrongSecretIsReturnMismatch ==
  \A s \in Slots :
    LET r == ops[s]
    IN WrongSecret(r)
       => Failure(r) = createReturnError(MainPrimitive(r.op), -1,
                                         ByteLen(r.args.data) - r.prov.extra)

C12_Witness ==
  \E s \in Slots :
    LET r == ops[s]
    IN /\ WrongSecret(r) /\ r.op = "passDecrypt" /\ r.entry = "async" /\ r.cb
       /\ r.args.data = Str(<<"e_acute">>) /\ r.prov.extra = 1
       /\ Failure(r).k = "ReturnMismatch" /\ Failure(r).expected = 1

StatusOps ==
  {"passEncrypt", "encryptedSave", "encryptedLoad", "deriveKeyFromPass",
   "deriveKeyWithSalt", "getSalt", "passKeyEncrypt", "encryptedKeySave",
   "encryptedKeyLoad"}

\* The completions of the calls of r other than its size query.
MainCompletions(r) ==
  {i \in 1..Len(r.calls) :
     r.calls[i].ev = "complete" /\ r.calls[i].c.name # SizeQuery(r.op)}

\* C13: a status-returning operation whose outcome is observed fails with
\* NonZeroReturnError exactly when its primitive returned a value other
\* than 0; the error names the primitive that was called and carries the
\* returned value; when the primitive returns 0 the operation succeeds.
C13_StatusClassification ==
  \A s \in Slots :
    LET r == ops[s]
    IN (r.op \in StatusOps /\ Over(r) /\ Observed(r))
       => /\ \A i \in MainCompletions(r) :
               /\ r.calls[i].c.name = MainPrimitive(r.op)
               /\ r.calls[i].err = NoErr
                  => IF r.calls[i].res # 0
                     THEN Failure(r) = createNonZeroReturnError(r.calls[i].c.name,
                                                                r.calls[i].res)
                     ELSE Succeeded(r)
          /\ Failure(r).k = "NonZeroReturn"
             => \E i \in MainCompletions(r) :
                  r.calls[i].err = NoErr /\ r.calls[i].res # 0

C13_Witness ==
  \E s \in Slots :
    LET r == ops[s]
    IN /\ r.op = "encryptedKeyLoad" /\ r.entry = "async" /\ r.cb /\ Over(r)
       /\ MainReturned(r, 2)
       /\ Failure(r) = createNonZeroReturnError("tox_encrypted_key_load", 2)

\* The output length a decrypt is expected to produce.
ExpectedLength(r) == ByteLen(r.args.data) - r.prov.extra

\* C14: a decrypt whose outcome is observed and whose round trips did not
\* fail succeeds exactly when the decrypt primitive returned the expected
\* output length (input length minus extra length); any other returned
\* value gives a ReturnMismatchError with the primitive's name, the
\* returned value and the expected length.
C14_DecryptClassification ==
  \A s \in Slots :
    LET r == ops[s]
    IN (r.op \in DecryptOps /\ Over(r) /\ Observed(r) /\ ~r.terr)
       => /\ Succeeded(r) <=> MainReturned(r, ExpectedLength(r))
          /\ \A i \in MainCompletions(r) :
               r.calls[i].res # ExpectedLength(r)
               => Failure(r) = createReturnError(MainPrimitive(r.op), r.calls[i].res,
                                                 ExpectedLength(r))

\* The size query of r completed with an error.
SizeQueryFailed(r) ==
  \E j \in CompletionsOf(r, SizeQuery(r.op)) : r.calls[j].err # NoErr

\* C15: within one invocation every primitive is issued at most once; when
\* the size query of a multi-step non-blocking operation reports an error
\* the main primitive is never issued and the handler, if there is one,
\* receives that error once the operation is over; on the blocking path an
\* operation that raises has made no provider call after the failing step:
\* none at all before a no-handle error, none after the size query before
\* an allocation error, and the failing primitive's call is the last one
\* otherwise.
C15_NoRetryNoSwallow ==
  \A s \in Slots :
    LET r == ops[s]
        n == Len(r.calls)
    IN /\ \A i, j \in 1..n :
            (r.calls[i].ev = "issue" /\ r.calls[j].ev = "issue"
             /\ r.calls[i].c.name = r.calls[j].c.name) => i = j
       /\ (r.op \in MultiStep /\ r.path = "nonblocking" /\ SizeQueryFailed(r))
          => /\ IssuesOf(r, MainPrimitive(r.op)) = {}
             /\ r.pc \in {"running", "done"}
             /\ (Over(r) /\ r.cb)
                => r.cbCalls = <<[err |-> TransportError, res |-> Absent]>>
       /\ (r.path = "blocking" /\ Thrown(r))
          => CASE r.ret.e.k = "NoHandle" -> r.calls = <<>>
               [] r.ret.e.k = "RangeError" ->
                    /\ IssuesOf(r, MainPrimitive(r.op)) = {}
                    /\ r.calls[n].c.name = SizeQuery(r.op)
               [] OTHER ->
                    /\ r.calls[n].ev = "complete"
                    /\ r.calls[n].c.name = r.ret.e.op
                    /\ r.calls[n].c.name = MainPrimitive(r.op)

C15_Witness ==
  \E s \in Slots :
    LET r == ops[s]
    IN /\ r.op = "encryptedSave" /\ r.path = "nonblocking" /\ r.cb /\ Over(r)
       /\ SizeQueryFailed(r)
       /\ IssuesOf(r, "tox_encrypted_save") = {}
       /\ r.cbCalls = <<[err |-> TransportError, res |-> Absent]>>

SaveOps == {"encryptedSave", "encryptedKeySave"}

\* C18: an encryptedSave or encryptedKeySave invoked with a handle present
\* issues the size query for that handle first; the save primitive is issued
\* only after the query's completion, with the handle and with a buffer
\* whose length is the query's result; a successful operation delivers that
\* buffer, so the delivered length equals the size query's result.
C18_SaveSizedBySizeQuery ==
  \A s \in Slots :
    LET r == ops[s]
    IN (r.op \in SaveOps /\ Made(r) /\ Truthy(r.handleAtEntry))
       => /\ r.calls # <<>>
          /\ r.calls[1] = Issued(LenCall("tox_encrypted_size", r.handleAtEntry),
                                  r.calls[1].mode)
          /\ \A i \in IssuesOf(r, MainPrimitive(r.op)) :
               /\ i = 3
               /\ r.calls[2].ev = "complete" /\ r.calls[2].err = NoErr
               /\ r.calls[2].c = r.calls[1].c
               /\ r.calls[i].c.handle = r.handleAtEntry
               /\ r.calls[i].c.buf = OutBuf(<<r.self, 1>>, r.calls[2].res)
          /\ Succeeded(r)
             => /\ IssuesOf(r, MainPrimitive(r.op)) # {}
                /\ Delivered(r) = r.calls[3].c.buf
                /\ Delivered(r).len = r.calls[2].res

C18_Witness ==
  \E s \in Slots :
    LET r == ops[s]
    IN /\ r.op = "encryptedKeySave" /\ r.entry = "async" /\ r.cb /\ Succeeded(r)
       /\ r.handleAtEntry = "h1" /\ r.prov.encSize = 2
       /\ Delivered(r).len = 2 /\ r.calls[3].c.handle = "h1"

\* An operation whose entry point ran _checkHandle.
GateRan(r) == Made(r) /\ r.op \in HandleBound /\ r.path = "nonblocking"

\* C19: _checkHandle returns true exactly when a handle is available,
\* whether or not a handler was passed; when it returns false it has called
\* the handler exactly once with the no-handle error.
C19_GateReportsHandle ==
  \A s \in Slots :
    LET r == ops[s]
    IN GateRan(r)
       => /\ r.gate <=> Truthy(r.handleAtEntry)
          /\ (~r.gate /\ r.cb)
             => r.cbCalls = <<[err |-> _createNoHandleError, res |-> Absent]>>

\* The options object the constructor was given, and the value it supplies
\* for 'sync': a single argument that is not a session is the options
\* object.
SingleNonSession == Len(ctorArgs) = 1 /\ ctorArgs[1].t # "Tox"
SuppliedOpts ==
  IF SingleNonSession THEN ctorArgs[1]
  ELSE IF Len(ctorArgs) = 2 THEN ctorArgs[2] ELSE Undefined
SuppliedSync == IF SuppliedOpts.t = "Object" THEN SuppliedOpts.sync ELSE "undefined"

\* C17: the sync flag is true when the sync option is omitted (undefined,
\* null, or no options object) and the boolean coercion of the supplied
\* value otherwise; a single argument that is not a session is taken as
\* the options object, so the flag comes from it and the facade has no
\* handle: its handle-bound operations fail with the no-handle error.
C17_SyncFlagFromOptions ==
  /\ _sync = (IF SuppliedSync \in {"undefined", "null"} THEN TRUE
              ELSE SuppliedSync \in {"true", "1", "'x'"})
  /\ SingleNonSession => getHandle = "undefined"
  /\ \A s \in Slots :
       LET r == ops[s]
       IN /\ (Made(r) /\ r.entry = "async" /\ ~r.cb)
             => (r.path = "blocking" <=> _sync)
          /\ (SingleNonSession /\ r.op = "getEncryptedSize" /\ Observed(r) /\ Over(r))
             => Failure(r) = _createNoHandleError

C17_Witness ==
  /\ ctorArgs = <<Opts("0")>> /\ ~_sync /\ getHandle = "undefined"
  /\ \E s \in Slots :
       LET r == ops[s]
       IN /\ r.op = "getEncryptedSize" /\ r.entry = "async" /\ r.cb /\ Over(r)
          /\ Failure(r) = _createNoHandleError

\* C20: every length an operation passes to the provider is the byte length
\* of the argument it belongs to, every data, passphrase or key it passes is
\* a byte sequence, and the output buffer of an encrypt or decrypt is sized
\* from the byte length of the data - for text and for bytes, passKeyDecrypt,
\* encryptedKeyLoad and getSalt included.
C20_LengthsAreByteLengths ==
  \A s \in Slots :
    LET r == ops[s]
    IN /\ \A i \in 1..Len(r.calls) :
            LET c == r.calls[i].c
            IN /\ c.dlen # NoLen => c.dlen = ByteLen(r.args.data)
               /\ c.slen # NoLen => c.slen = ByteLen(r.args.secret)
               /\ ~isString(c.darg) /\ ~isString(c.sarg)
       /\ (r.op \in EncryptOps \cup DecryptOps /\ r.out # NoBuf)
          => r.out.len = SizeRule(r, r.prov.extra)
       /\ (Over(r) /\ Observed(r)) => Failure(r) # TypeError

\* The invocation of r run alone: the same entry point on the same
\* arguments and provider, its round trips completed one after the other
\* with the errors r's own round trips completed with.
Alone(r) ==
  LET f == Started(r.self, r.op, "async", r.args.data, r.args.secret, r.cb, r.prov)
      e == IF r.op = "passEncrypt" THEN passEncrypt(f, CbArg(r.cb))
           ELSE passDecrypt(f, CbArg(r.cb))
      done == SelectSeq(r.calls, LAMBDA x : x.ev = "complete")
      a1 == IF e.pc = "pending" /\ Len(done) >= 1 THEN Resume(e, done[1].err) ELSE e
      a2 == IF a1.pc = "pending" /\ Len(done) >= 2 THEN Resume(a1, done[2].err) ELSE a1
  IN a2

\* The output buffers r allocated or handed to the provider.
BuffersOf(r) ==
  (IF r.out = NoBuf THEN {} ELSE {r.out.id})
  \cup {r.calls[i].c.buf.id : i \in {j \in 1..Len(r.calls) : r.calls[j].c.buf # NoBuf}}

C11_RoundTrip ==
  \A s \in Slots :
    LET d == ops[s]
    IN (d.op \in DecryptOps /\ Over(d) /\ Observed(d) /\ ~d.terr)
       => LET e == ops[s - 1]
          IN /\ e.op \in EncryptOps /\ e.args.data.v # <<>>
             /\ d.args.secret = e.args.secret
             /\ Succeeded(d)
             /\ Delivered(d) = d.out
             /\ d.mem = ToBuffer(e.args.data).v
             /\ d.out.len = ByteLen(e.args.data)

C11_Witness ==
  \E s \in Slots :
    LET d == ops[s]
    IN /\ d.op = "passDecrypt" /\ d.entry = "async" /\ d.cb /\ Succeeded(d)
       /\ ops[s - 1].op = "passEncrypt" /\ ops[s - 1].entry = "sync"
       /\ ops[s - 1].args.data = Str(<<"e_acute">>)
       /\ ops[s - 1].args.secret = Str(<<"e_acute">>)
       /\ d.prov.extra = 2
       /\ d.args.data = Buf(<<197, 197, 195, 169>>)
       /\ d.mem = <<195, 169>>

\* C21: a getSalt, on either convention, has allocated a result buffer of
\* TOX_SALT_LENGTH bytes whatever the length of its data, has issued exactly
\* one provider call, tox_get_salt with the data and that buffer, with no
\* length query before it, and - when its outcome is observed - fails with
\* NonZeroReturnError exactly when the primitive returned a value other
\* than 0, delivering the buffer otherwise.
C21_SaltBufferFixedLength ==
  \A s \in Slots :
    LET r == ops[s]
    IN (r.op = "getSalt" /\ Made(r))
       => /\ r.out = OutBuf(<<r.self, 1>>, TOX_SALT_LENGTH)
          /\ r.calls # <<>>
          /\ r.calls[1].ev = "issue"
          /\ r.calls[1].c =
               Call("tox_get_salt", "none", r.args.data, NoLen, NoArg, NoLen, r.out)
          /\ IssuesOf(r, "tox_get_salt") = {1}
          /\ \A i \in 1..Len(r.calls) : r.calls[i].c.name = "tox_get_salt"
          /\ (Over(r) /\ Observed(r))
             => /\ Failure(r).k = "NonZeroReturn"
                   <=> \E v \in Rets \ {0} : MainReturned(r, v)
                /\ MainReturned(r, 0) => Succeeded(r) /\ Delivered(r) = r.out

C21_Witness ==
  \E s \in Slots :
    LET r == ops[s]
    IN /\ r.op = "getSalt" /\ r.entry = "sync" /\ Succeeded(r)
       /\ r.args.data = Buf(<<97, 97>>)
       /\ Delivered(r).len = TOX_SALT_LENGTH
       /\ Len(r.calls) = 2

\* C22: an isDataEncrypted, on either convention and with or without a
\* handle, calls the predicate; when its outcome is observed and the
\* predicate returned v, it yields the boolean (v = 1) - false for 0, for a
\* negative value and for a value above 1 - and it never ends in a
\* NonZeroReturnError, a ReturnMismatchError or the no-handle error.
C22_PredicateIsOneExactly ==
  \A s \in Slots :
    LET r == ops[s]
    IN (r.op = "isDataEncrypted" /\ Made(r))
       => /\ r.calls # <<>>
          /\ r.calls[1] =
               Issued(Call("tox_is_data_encrypted", "none", r.args.data, NoLen,
                           NoArg, NoLen, NoBuf), r.calls[1].mode)
          /\ (Over(r) /\ Observed(r))
             => /\ Failure(r).k \notin {"NonZeroReturn", "ReturnMismatch", "NoHandle"}
                /\ \A v \in Rets :
                     MainReturned(r, v) => Succeeded(r) /\ Delivered(r) = BoolVal(v = 1)

C22_Witness ==
  \E s \in Slots :
    LET r == ops[s]
    IN /\ r.op = "isDataEncrypted" /\ r.entry = "async" /\ r.cb /\ Over(r)
       /\ ~Truthy(r.handleAtEntry)
       /\ MainReturned(r, -1)
       /\ Delivered(r) = BoolVal(FALSE)

\* Every place of an invocation where an error can show: thrown, handed to
\* the handler, or thrown inside a callback.
NoHandleSeen(r) ==
  \/ Thrown(r) /\ r.ret.e.k = "NoHandle"
  \/ \E i \in 1..Len(r.cbCalls) : r.cbCalls[i].err.k = "NoHandle"
  \/ r.uncaught.k = "NoHandle"

\* The call events of an invocation with each output buffer named by its
\* rank among the invocation's allocations, not by the invocation.
CallsMade(r) ==
  [i \in 1..Len(r.calls) |->
     [r.calls[i] EXCEPT !.c.buf = IF @ = NoBuf THEN @ ELSE [@ EXCEPT !.id = @[2]]]]

\* The round trips of a and of b fared alike as far as both went.
SameTransport(a, b) ==
  LET ea == SelectSeq(a.calls, LAMBDA x : x.ev = "complete")
      eb == SelectSeq(b.calls, LAMBDA x : x.ev = "complete")
  IN \A i \in 1..Len(ea) : i <= Len(eb) => ea[i].err = eb[i].err

\* Invocation b is invocation a made again.
SameInvocation(a, b) ==
  /\ a.op = b.op /\ a.entry = b.entry /\ a.args = b.args /\ a.cb = b.cb
  /\ a.prov = b.prov

\* C23: an operation that requires no handle never shows the no-handle
\* error (thrown, handed to the handler or thrown in a callback) and hands no
\* handle to the provider, and made again after the session's handle has
\* appeared or gone it issues the same provider calls and ends the same way;
\* a handle-bound operation entered while a handle is present never shows the
\* no-handle error, whatever happens to the handle afterwards.
C23_NoHandleOnlyFromGate ==
  /\ \A s \in Slots :
       LET r == ops[s]
       IN Made(r)
          => /\ r.op \notin HandleBound
                => /\ ~NoHandleSeen(r)
                   /\ \A i \in 1..Len(r.calls) : r.calls[i].c.handle = "none"
             /\ (r.op \in HandleBound /\ Truthy(r.handleAtEntry)) => ~NoHandleSeen(r)
  /\ \A s, u \in Slots :
       LET a == ops[s]
           b == ops[u]
       IN (/\ s # u /\ Over(a) /\ Over(b) /\ a.op \notin HandleBound
           /\ SameInvocation(a, b) /\ SameTransport(a, b))
          => /\ CallsMade(a) = CallsMade(b)
             /\ Failure(a) = Failure(b)
             /\ a.ret.k = b.ret.k /\ a.pc = b.pc /\ Len(a.cbCalls) = Len(b.cbCalls)

C23_Witness ==
  \E s, u \in Slots :
    LET a == ops[s]
        b == ops[u]
    IN /\ a.op = "passKeyEncrypt" /\ a.entry = "async" /\ a.cb
       /\ SameInvocation(a, b)
       /\ a.handleAtEntry = "null" /\ b.handleAtEntry = "h1"
       /\ Succeeded(a) /\ Succeeded(b)
       /\ Len(a.calls) = 4 /\ CallsMade(a) = CallsMade(b)

\* A non-blocking save that has passed its entry gate and is about to make
\* the nested size query, and the outcome of that query in the present state.
PastEntryGate(r) ==
  [Path(Started(r.self, r.op, "async", r.args.data, r.args.secret, r.cb, r.prov),
        "nonblocking")
     EXCEPT !.gate = TRUE,
            !.secret = IF r.op = "encryptedSave" THEN ToBuffer(@) ELSE @]
NestedSizeQuery(r) ==
  getEncryptedSize(PastEntryGate(r),
                   IF r.op = "encryptedSave" THEN "encryptedSave_onSize"
                   ELSE "encryptedKeySave_onSize")

\* The invocation ended at a gate: no primitive was called and the handler,
\* if one was given, was called once, with the no-handle error.
StoppedAtGate(r) ==
  /\ r.calls = <<>> /\ r.pend = NoCall /\ r.pc = "done" /\ ~r.gate
  /\ r.cbCalls = IF r.cb THEN <<[err |-> _createNoHandleError, res |-> Absent]>>
                  ELSE <<>>

\* C24: in a non-blocking encryptedSave or encryptedKeySave each step reads
\* the handle the session exposes at that moment: every primitive issued in a
\* step is handed the handle of that step, the size query at entry and the
\* save primitive when the size query completes, whatever the handle was at
\* entry; an invocation that a gate stopped called no primitive and its
\* handler received the no-handle error exactly once; and a nested size query
\* made with the handle gone since the entry gate passed stops at its own gate
\* in that way.
C24_HandleReadAtEachStep ==
  [][\A s \in Slots :
       LET r == ops[s]
           n == ops'[s]
       IN (n.op \in SaveOps /\ n.path = "nonblocking")
          => /\ \A i \in (Len(r.calls) + 1)..Len(n.calls) :
                  n.calls[i].ev = "issue"
                  => /\ n.calls[i].c.handle = getHandle
                     /\ n.calls[i].c.handle = getHandle'
                     /\ n.calls[i].c.name =
                          IF i = 1 THEN "tox_encrypted_size" ELSE MainPrimitive(n.op)
             /\ ~n.gate => StoppedAtGate(n)
             /\ ((ops[s].cb /\ Truthy(ops[s].handleAtEntry) /\ ~Truthy(getHandle))
                 => StoppedAtGate(NestedSizeQuery(ops[s])))']_vars

C24_Witness ==
  \E s \in Slots :
    LET r == ops[s]
    IN /\ r.op = "encryptedKeySave" /\ r.entry = "async" /\ r.cb /\ Over(r)
       /\ Len(r.calls) = 4
       /\ r.calls[1].c = LenCall("tox_encrypted_size", "h1")
       /\ r.calls[3].ev = "issue" /\ r.calls[3].c.name = "tox_encrypted_key_save"
       /\ r.calls[3].c.handle = "null"
       /\ Len(r.cbCalls) = 1

\* C25: a non-blocking invocation with a handler in which a round trip
\* completed with a transport error ends with that failed completion - no
\* further primitive is issued - and its handler is called exactly once, with
\* that error itself and never a NonZeroReturnError or ReturnMismatchError;
\* an isDataEncrypted so failed delivers no boolean.
C25_TransportErrorUnclassified ==
  \A s \in Slots :
    LET r == ops[s]
    IN (r.path = "nonblocking" /\ r.cb /\ Made(r) /\ r.terr)
       => /\ r.pc = "done"
          /\ r.calls[Len(r.calls)].ev = "complete"
          /\ r.calls[Len(r.calls)].err = TransportError
          /\ \A i \in 1..(Len(r.calls) - 1) : r.calls[i].err = NoErr
          /\ Len(r.cbCalls) = 1
          /\ r.cbCalls[1].err = TransportError
          /\ r.cbCalls[1].err.k \notin {"NonZeroReturn", "ReturnMismatch"}
          /\ r.op = "isDataEncrypted" => r.cbCalls[1].res = Absent
          /\ r.uncaught = NoErr

C25_Witness ==
  \E s \in Slots :
    LET r == ops[s]
    IN /\ r.op = "passDecrypt" /\ r.path = "nonblocking" /\ r.cb /\ r.pc = "done"
       /\ Len(r.calls) = 4
       /\ r.calls[4].c.name = "tox_pass_decrypt"
       /\ r.calls[4].err = TransportError
       /\ r.prov.ret # r.out.len
       /\ r.cbCalls = <<[err |-> TransportError, res |-> r.out]>>

====
